---- MODULE Spec2Model ----
(***************************************************************************)
(* Model of src/poc.py: the AKS + Istio provisioning script.               *)
(*                                                                         *)
(* One process start is `main` (argument validation and construction of    *)
(* the AKSIstioSetup object) followed either by `cleanup` or by the stages *)
(* of `run`, one action per stage method.  Every external call (Azure SDK, *)
(* az, kubectl, istioctl, helm, httpx) is an input of the action that      *)
(* makes it: its outcome is drawn with \E from the outcomes the call can   *)
(* produce.  The operator may start the script again with the token of the *)
(* finished session (Rerun); the cloud state persists between the starts.  *)
(***************************************************************************)
EXTENDS Integers, Sequences, FiniteSets, TLC

VARIABLES
    args,        \* command line of the current process: unique_id, location, issuer_type, cleanup
    setup,       \* the AKSIstioSetup object (constructed = FALSE until __init__ returned)
    pc,          \* "main", a stage of run, "cleanup" or "done"
    exit_status, \* <<>> while the process runs, <<code>> once it has exited
    started,     \* stages of run entered by the current process, in order
    finished,    \* stages of run that returned to run (normally or with a swallowed failure)
    raised,      \* stages of run (or "cleanup") that raised or exited, in order
    calls,       \* external calls issued by the current process, in order
    cloud,       \* what exists in the subscription / cluster for the session token
    answer,      \* the operator's answer to the confirmation prompt of cleanup
    prev,        \* the names derived by the previous process start, and what
                 \* existed in the cloud when the current one began
    loop,        \* the polling loop in progress: its kind, loop index, elapsed time,
                 \* last observation and the results of its predicate evaluations
    frame,       \* the locals of the method that ran last, as far as a property
                 \* reads them: of configure_dns, _run_command or _kubectl_apply
    racers       \* two processes started at once with one token: where each one is
                 \* in its lookups and creation calls, and what it has issued

vars == <<args, setup, pc, exit_status, started, finished, raised, calls, cloud, answer, prev, loop, frame, racers>>

(***************************************************************************)
(* Bounds of the model.                                                    *)
(***************************************************************************)
MaxTokenLen == 6

(***************************************************************************)
(* Characters and the str predicates main() uses.  A token is a sequence   *)
(* of one-character strings.                                               *)
(***************************************************************************)
LowerChars == {"a", "b", "c"}
UpperChars == {"A"}
DigitChars == {"1", "2"}
SymbolChars == {"-"}

\* The characters the command-line tokens of the model are built from:
\* one lowercase letter, one digit, one uppercase letter, one symbol.
Alphabet == {"a", "1", "A", "-"}

\* Python's None for the optional --unique-id (not a token over the alphabet).
None == <<"None">>
NoneStr == "None"

\* str.isalnum(): non-empty and every character a letter or a digit
isalnum(s) == Len(s) > 0 /\ \A i \in 1..Len(s) : s[i] \in LowerChars \cup UpperChars \cup DigitChars

\* str.isalpha() of one character
isalpha(c) == c \in LowerChars \cup UpperChars

\* str.islower(): at least one cased character and no uppercase character
islower(s) == (\E i \in 1..Len(s) : s[i] \in LowerChars \cup UpperChars)
              /\ \A i \in 1..Len(s) : s[i] \notin UpperChars

\* Python truthiness of Optional[str]: None and "" are falsy
Truthy(u) == u # None /\ u # <<>>

TokenLen == 5

\* main(): the three checks of the unique ID, made only when it is truthy
UniqueIdRejected(u) ==
    /\ Truthy(u)
    /\ \/ ~(Len(u) = TokenLen /\ isalnum(u))
       \/ ~isalpha(u[1])
       \/ ~islower(u)

IssuerTypes == {"staging", "production"}

\* an enum check that folds the case of the first letter
IssuerRejectedCaseFolded(i) == i \notin IssuerTypes \cup {"Staging", "Production"}

\* main(): issuer_type not in ["staging", "production"]
IssuerRejected(i) == i \notin IssuerTypes

RECURSIVE Str(_)
\* the Python string a token stands for
Str(s) == IF s = <<>> THEN "" ELSE Head(s) \o Str(Tail(s))

\* The strings of length n the model draws: all "a", or all "a" but for one
\* position, which holds any character of `chars`.
OneOff(n, chars) ==
    {[i \in 1..n |-> "a"]} \cup {[i \in 1..n |-> IF i = k THEN c ELSE "a"] : k \in 1..n, c \in chars}

\* __init__: the unique ID is the supplied one, or a generated one:
\* random.choice(ascii_lowercase) followed by four of ascii_lowercase + digits
GeneratedRestLen == 4

\* a generator that draws the first character from letters and digits alike
GeneratedIdsAnyFirst ==
    {<<f>> \o r : f \in (LowerChars \cup DigitChars) \cap Alphabet,
                  r \in OneOff(GeneratedRestLen, (LowerChars \cup DigitChars) \cap Alphabet)}

GeneratedIds ==
    {<<f>> \o r : f \in LowerChars \cap Alphabet,
                  r \in OneOff(GeneratedRestLen, (LowerChars \cup DigitChars) \cap Alphabet)}

InitUniqueId(u) == IF Truthy(u) THEN {u} ELSE GeneratedIds

\* __init__: f"aks-sample-{self.unique_id}"
ResourceGroupName(id) == "aks-sample-" \o Str(id)

\* a cluster name that lost the separator of its suffix
AksNameNoSeparator(id) == "aks-sample-" \o Str(id) \o "aks"

\* __init__: f"aks-sample-{self.unique_id}-aks"
AksName(id) == "aks-sample-" \o Str(id) \o "-aks"

(***************************************************************************)
(* The inputs of a process start.                                          *)
(***************************************************************************)
ExampleToken == <<"a", "1", "b", "2", "c">>

UniqueIdInputs ==
    {None, ExampleToken} \cup UNION {OneOff(n, Alphabet) : n \in 0..MaxTokenLen}

IssuerInputs == {"staging", "production", "Staging"}

Locations == {"eastus"}

NoSetup ==
    [constructed |-> FALSE, unique_id |-> None, location |-> NoneStr,
     issuer_type |-> NoneStr, resource_group |-> NoneStr, aks_name |-> NoneStr,
     ingress_ip |-> NoneStr, fqdn |-> NoneStr, node_resource_group |-> NoneStr]

\* __init__ up to the runtime variables
NewSetup(id, loc, issuer) ==
    [constructed |-> TRUE, unique_id |-> id, location |-> loc,
     issuer_type |-> issuer, resource_group |-> ResourceGroupName(id),
     aks_name |-> AksName(id),
     ingress_ip |-> NoneStr, fqdn |-> NoneStr, node_resource_group |-> NoneStr]

NoCloud == [rg |-> FALSE, aks |-> FALSE, mesh |-> FALSE, cert_manager |-> FALSE]

NoPrev == [constructed |-> FALSE, unique_id |-> None,
           resource_group |-> NoneStr, aks_name |-> NoneStr, cloud |-> NoCloud]

\* no polling loop is being followed
NoPoll == [kind |-> "none", status |-> "none", i |-> 0, elapsed |-> 0, at |-> 0,
           last |-> << >>, results |-> << >>]

\* no method's locals are kept
NoFrame == [fn |-> "none"]

\* no second process
NoRacers == << >>

\* an external call; check: a failure of the call raises in the caller
\* (_run_command with check=True, _kubectl_apply, a poll's timeout, an SDK call)
Step(op, arg, check) == [op |-> op, arg |-> arg, check |-> check]

Call(op, arg) == Step(op, arg, TRUE)

\* an existence check, logged with what it answered: "found", "absent", or
\* "error" when the check itself failed
Lookup(op, arg, ans) == [op |-> op, arg |-> arg, check |-> FALSE, answer |-> ans]

\* What an existence check can answer.  A check of an absent resource that
\* fails takes the same branch of the caller as "absent" and is not drawn apart.
LookupAnswers(exists) == IF exists THEN {"found", "error"} ELSE {"absent"}

\* a step that goes on to create whatever its lookup answered
AdoptsNever(ans) == FALSE

\* try: get(...); return  except: pass -- the step returns when the lookup
\* returned, and creates when it raised, whatever it raised
Adopts(ans) == ans = "found"

\* _kubectl_apply(yaml_content, resource_type): a document whose content the
\* model does not follow is known by its resource_type
Doc(resource_type) == [resource_type |-> resource_type]

\* A stage body of consecutive calls stops at the first call that raises.
\* k calls succeeded; the call after them, if any, is the one that raised.
CanStopAfter(steps, k) == IF k = Len(steps) THEN TRUE ELSE steps[k + 1].check

Issued(steps, k) == SubSeq(steps, 1, IF k < Len(steps) THEN k + 1 ELSE k)

Init ==
    /\ args \in [unique_id : UniqueIdInputs, location : Locations,
                 issuer_type : IssuerInputs, cleanup : BOOLEAN]
    /\ setup = NoSetup
    /\ pc = "main"
    /\ exit_status = <<>>
    /\ started = <<>>
    /\ finished = <<>>
    /\ raised = <<>>
    /\ calls = <<>>
    /\ cloud = NoCloud
    /\ answer = "none"
    /\ prev = NoPrev
    /\ loop = NoPoll
    /\ frame = NoFrame
    /\ racers = NoRacers

(***************************************************************************)
(* run(): the order of the stage calls and the three inner try/except.     *)
(***************************************************************************)
Range(seq) == {seq[i] : i \in DOMAIN seq}

\* a run() that configures the gateway before it requests the certificate
RunOrderGatewayEarly ==
    << "prerequisites", "resource_group", "cluster", "mesh_install",
       "external_authz_deploy", "dns_binding", "cert_manager_install",
       "issuer_create", "gateway_configure", "certificate_create", "policy_demo",
       "workload_deploy", "authz_policy_configure",
       "violation_check", "smoke_test", "authz_demo", "summary" >>

RunOrder ==
    << "prerequisites", "resource_group", "cluster", "mesh_install",
       "external_authz_deploy", "dns_binding", "cert_manager_install",
       "issuer_create", "certificate_create", "policy_demo",
       "gateway_configure", "workload_deploy", "authz_policy_configure",
       "violation_check", "smoke_test", "authz_demo", "summary" >>

\* a run() that also wraps the workload deployment in a try/except
BestEffortWithWorkload == {"policy_demo", "violation_check", "authz_demo", "workload_deploy"}

\* a run() that lost the try/except around check_policy_violations
BestEffortWithoutViolationCheck == {"policy_demo", "authz_demo"}

\* a run() that also wraps configure_dns in a try/except
BestEffortWithDns == {"policy_demo", "violation_check", "authz_demo", "dns_binding"}

\* the stages run() wraps in their own try/except Exception
BestEffort == {"policy_demo", "violation_check", "authz_demo"}

StageIndex(s) == CHOOSE i \in 1..Len(RunOrder) : RunOrder[i] = s

\* the statement of run() that follows stage s; after the last one run() and
\* main() return
NextPc(s) == IF StageIndex(s) = Len(RunOrder) THEN "done" ELSE RunOrder[StageIndex(s) + 1]

\* the stage method returned normally
Returned(s) ==
    /\ started' = Append(started, s)
    /\ finished' = Append(finished, s)
    /\ raised' = raised
    /\ pc' = NextPc(s)
    /\ exit_status' = IF NextPc(s) = "done" THEN <<0>> ELSE exit_status

\* an orchestrator that calls a required stage a second time after its first failure
RaisedRetryOnce(s) ==
    /\ started' = Append(started, s)
    /\ raised' = Append(raised, s)
    /\ IF s \in BestEffort
       THEN /\ finished' = Append(finished, s)
            /\ pc' = NextPc(s)
            /\ exit_status' = IF NextPc(s) = "done" THEN <<0>> ELSE exit_status
       ELSE /\ finished' = finished
            /\ pc' = IF s \in Range(raised) THEN "done" ELSE s
            /\ exit_status' = IF s \in Range(raised) THEN <<1>> ELSE exit_status

\* an outer except that prints the error and returns instead of calling sys.exit(1)
RaisedNoExit(s) ==
    /\ started' = Append(started, s)
    /\ raised' = Append(raised, s)
    /\ IF s \in BestEffort
       THEN /\ finished' = Append(finished, s)
            /\ pc' = NextPc(s)
            /\ exit_status' = IF NextPc(s) = "done" THEN <<0>> ELSE exit_status
       ELSE /\ finished' = finished
            /\ pc' = "done"
            /\ exit_status' = <<0>>

\* an outer except that rolls back: it runs cleanup() before the process ends
RaisedWithCleanup(s) ==
    /\ started' = Append(started, s)
    /\ raised' = Append(raised, s)
    /\ IF s \in BestEffort
       THEN /\ finished' = Append(finished, s)
            /\ pc' = NextPc(s)
            /\ exit_status' = IF NextPc(s) = "done" THEN <<0>> ELSE exit_status
       ELSE /\ finished' = finished
            /\ pc' = "cleanup"
            /\ exit_status' = <<1>>

\* the stage method raised an Exception: swallowed by the inner try/except of a
\* best-effort stage, otherwise caught by the outer except, which exits 1
Raised(s) ==
    /\ started' = Append(started, s)
    /\ raised' = Append(raised, s)
    /\ IF s \in BestEffort
       THEN /\ finished' = Append(finished, s)
            /\ pc' = NextPc(s)
            /\ exit_status' = IF NextPc(s) = "done" THEN <<0>> ELSE exit_status
       ELSE /\ finished' = finished
            /\ pc' = "done"
            /\ exit_status' = <<1>>

\* the stage method called sys.exit(1): SystemExit is no Exception, no handler
\* of run() catches it
SysExit(s) ==
    /\ started' = Append(started, s)
    /\ raised' = Append(raised, s)
    /\ finished' = finished
    /\ pc' = "done"
    /\ exit_status' = <<1>>

Outcome(s, ok) == IF ok THEN Returned(s) ELSE Raised(s)

(***************************************************************************)
(* main(): validation, construction of the session, dispatch.              *)
(***************************************************************************)
\* a swapped dispatch: --cleanup provisions and its absence tears down
DispatchSwapped(cleanup) == IF cleanup THEN RunOrder[1] ELSE "cleanup"

\* main(): if cleanup: setup.cleanup() else: setup.run()
Dispatch(cleanup) == IF cleanup THEN "cleanup" ELSE RunOrder[1]

Main ==
    /\ pc = "main"
    /\ frame' = NoFrame
    /\ UNCHANGED <<loop, racers, args, started, finished, raised, cloud, answer, prev>>
    /\ IF UniqueIdRejected(args.unique_id) \/ IssuerRejected(args.issuer_type)
       THEN \* raise typer.Exit(1)
            /\ pc' = "done"
            /\ exit_status' = <<1>>
            /\ UNCHANGED <<setup, calls>>
       ELSE \E id \in InitUniqueId(args.unique_id), logged_in \in BOOLEAN :
            \* __init__ calls _get_subscription_id: az account show
            /\ calls' = Append(calls, Call("account_show", ""))
            /\ IF logged_in
               THEN /\ setup' = NewSetup(id, args.location, args.issuer_type)
                    /\ pc' = Dispatch(args.cleanup)
                    /\ exit_status' = exit_status
               ELSE \* sys.exit(1) inside __init__
                    /\ setup' = setup
                    /\ pc' = "done"
                    /\ exit_status' = <<1>>

(***************************************************************************)
(* cleanup()                                                               *)
(***************************************************************************)
Answers == {"yes", "no", "abort"}

\* a cleanup that does not look at the answer unless the prompt was aborted
DeleteStepsUnconfirmed(rg, a, begin_ok) ==
    IF a # "abort"
    THEN << Call("rg_delete", rg) >>
         \o (IF begin_ok THEN << Call("rg_delete_wait", rg) >> ELSE << >>)
    ELSE << >>

\* cleanup(): begin_delete and poller.result(), only under a confirmed prompt
DeleteSteps(rg, a, begin_ok) ==
    IF a = "yes"
    THEN << Call("rg_delete", rg) >>
         \o (IF begin_ok THEN << Call("rg_delete_wait", rg) >> ELSE << >>)
    ELSE << >>

Cleanup ==
    /\ pc = "cleanup"
    /\ pc' = "done"
    /\ frame' = NoFrame
    /\ UNCHANGED <<loop, racers, args, setup, started, finished, prev>>
    /\ \E a \in Answers, begin_ok \in BOOLEAN, result_ok \in BOOLEAN :
        LET steps == DeleteSteps(setup.resource_group, a, begin_ok)
            \* an exception of begin_delete or of poller.result(), or the
            \* typer.Abort of an unanswered prompt, leaves main(): exit status 1
            ok == a # "abort" /\ (steps # << >> => begin_ok /\ result_ok)
        IN /\ answer' = a
           /\ calls' = calls \o steps
           /\ cloud' = IF steps # << >> /\ begin_ok /\ result_ok THEN NoCloud ELSE cloud
           /\ raised' = IF ok THEN raised ELSE Append(raised, "cleanup")
           /\ exit_status' = IF ok THEN <<0>> ELSE <<1>>

(***************************************************************************)
(* The stages of run().                                                    *)
(***************************************************************************)
\* a stage whose body is the consecutive calls `steps`
StepsStage(s, steps) ==
    \E k \in 0..Len(steps) :
        /\ CanStopAfter(steps, k)
        /\ calls' = calls \o Issued(steps, k)
        /\ Outcome(s, k = Len(steps))

\* check_prerequisites: the critical checks end in sys.exit(1); the optional
\* tools are installed afterwards
check_prerequisites ==
    /\ pc = "prerequisites"
    /\ frame' = NoFrame
    /\ UNCHANGED <<loop, racers, args, setup, cloud, answer, prev>>
    /\ \E python_ok \in BOOLEAN, az_ok \in BOOLEAN, kubectl_ok \in BOOLEAN,
          logged_in \in BOOLEAN, istioctl_found \in BOOLEAN, helm_found \in BOOLEAN :
        LET all_satisfied == python_ok /\ az_ok /\ kubectl_ok /\ logged_in
            installs == (IF istioctl_found THEN << >> ELSE << Call("install_istioctl", "") >>)
                        \o (IF helm_found THEN << >> ELSE << Call("install_helm", "") >>)
        IN IF ~all_satisfied
           THEN /\ calls' = calls
                /\ SysExit("prerequisites")
           ELSE StepsStage("prerequisites", installs)

\* create_resource_group: any exception of the lookup counts as "absent"
create_resource_group ==
    /\ pc = "resource_group"
    /\ frame' = NoFrame
    /\ UNCHANGED <<loop, racers, args, setup, answer, prev>>
    /\ \E ans \in LookupAnswers(cloud.rg), created \in BOOLEAN :
        IF Adopts(ans)
        THEN /\ calls' = Append(calls, Lookup("rg_lookup", setup.resource_group, ans))
             /\ cloud' = cloud
             /\ Returned("resource_group")
        ELSE /\ calls' = calls \o << Lookup("rg_lookup", setup.resource_group, ans),
                                     Call("rg_create", setup.resource_group) >>
             /\ cloud' = IF created THEN [cloud EXCEPT !.rg = TRUE] ELSE cloud
             /\ Outcome("resource_group", created)

\* create_aks_cluster: an adopted cluster returns at once; a created one gets its
\* credentials fetched and its node readiness awaited
ClusterSteps ==
    << Call("aks_create", setup.aks_name),
       Call("aks_get_credentials", setup.aks_name),
       Call("wait_cluster_readiness", setup.aks_name) >>

create_aks_cluster ==
    /\ pc = "cluster"
    /\ frame' = NoFrame
    /\ UNCHANGED <<loop, racers, args, setup, answer, prev>>
    /\ \E ans \in LookupAnswers(cloud.aks) :
        IF Adopts(ans)
        THEN /\ calls' = Append(calls, Lookup("aks_lookup", setup.aks_name, ans))
             /\ cloud' = cloud
             /\ Returned("cluster")
        ELSE \E k \in 0..Len(ClusterSteps) :
             /\ calls' = Append(calls, Lookup("aks_lookup", setup.aks_name, ans))
                          \o Issued(ClusterSteps, k)
             /\ cloud' = IF k >= 1 THEN [cloud EXCEPT !.aks = TRUE] ELSE cloud
             /\ Outcome("cluster", k = Len(ClusterSteps))

\* install_istio: the namespace check, then CRDs, istioctl install and the two waits
\* an install_istio that waits for istiod before it has installed the mesh
IstioStepsWaitBeforeInstall ==
    << Call("kubectl_apply_url", "gateway-api"),
       Call("wait_deployment", "istiod"),
       Call("istioctl_install", "profile=demo"),
       Call("wait_deployment", "istio-ingressgateway") >>

IstioSteps ==
    << Call("kubectl_apply_url", "gateway-api"),
       Call("istioctl_install", "profile=demo"),
       Call("wait_deployment", "istiod"),
       Call("wait_deployment", "istio-ingressgateway") >>

install_istio ==
    /\ pc = "mesh_install"
    /\ frame' = NoFrame
    /\ UNCHANGED <<loop, racers, args, setup, answer, prev>>
    /\ \E ans \in LookupAnswers(cloud.mesh) :
        \* kubectl get namespace istio-system, check=False: found when it exits 0
        LET check == Lookup("kubectl_get_namespace", "istio-system", ans)
        IN IF ans = "found"
           THEN /\ calls' = Append(calls, check)
                /\ cloud' = cloud
                /\ Returned("mesh_install")
           ELSE \E k \in 0..Len(IstioSteps), ns_after \in BOOLEAN :
                /\ calls' = Append(calls, check) \o Issued(IstioSteps, k)
                \* a successful istioctl install leaves the namespace; a failed one may
                /\ cloud' = [cloud EXCEPT !.mesh = IF k >= 2 THEN TRUE
                                                   ELSE IF k = 1 THEN cloud.mesh \/ ns_after
                                                   ELSE cloud.mesh]
                /\ Outcome("mesh_install", k = Len(IstioSteps))

\* deploy_opa_external_authz: three applies, the wait, and the tolerated
\* istioctl install that configures the mesh
\* a deploy_opa_external_authz that calls the mesh configuration with check=True
OpaStepsCheckedMeshConfig ==
    << Call("kubectl_apply", Doc("OPA Namespace")),
       Call("kubectl_apply", Doc("OPA External AuthZ Service")),
       Call("kubectl_apply", Doc("OPA Authorization Policy")),
       Call("wait_deployment", "opa"),
       Call("istioctl_install", "extensionProviders") >>

\* a deploy_opa_external_authz that waits for the deployment before it
\* applies the policy document
OpaStepsWaitBeforePolicy ==
    << Call("kubectl_apply", Doc("OPA Namespace")),
       Call("kubectl_apply", Doc("OPA External AuthZ Service")),
       Call("wait_deployment", "opa"),
       Call("kubectl_apply", Doc("OPA Authorization Policy")),
       Step("istioctl_install", "extensionProviders", FALSE) >>

\* the calls of deploy_opa_external_authz; the mesh configuration runs with
\* check=False
OpaSteps ==
    << Call("kubectl_apply", Doc("OPA Namespace")),
       Call("kubectl_apply", Doc("OPA External AuthZ Service")),
       Call("kubectl_apply", Doc("OPA Authorization Policy")),
       Call("wait_deployment", "opa"),
       Step("istioctl_install", "extensionProviders", FALSE) >>

\* result.returncode of the mesh configuration command
ReturnCodes == {0, 1}

\* the method returns after `if result.returncode == 0:` with either message
deploy_opa_external_authz ==
    /\ pc = "external_authz_deploy"
    /\ UNCHANGED <<loop, racers, args, setup, cloud, answer, prev>>
    /\ StepsStage("external_authz_deploy", OpaSteps)
    /\ \E returncode \in ReturnCodes :
        frame' = IF pc' = "dns_binding"
                 THEN [fn |-> "deploy_opa_external_authz", returncode |-> returncode]
                 ELSE NoFrame

\* configure_dns: poll the ingress address, read the node resource group, find
\* the public address with that IP, put the DNS label on it, wait, keep the FQDN
IngressIps == {"20.0.0.1"}

PublicIpAddresses == {"20.0.0.1", "20.0.0.2"}

\* what public_ip_addresses.list can return: the resources of the node resource group
PublicIpLists ==
    {<< >>}
    \cup {<<[name |-> "pip-a", ip_address |-> x]>> : x \in PublicIpAddresses}
    \cup {<<[name |-> "pip-a", ip_address |-> x], [name |-> "pip-b", ip_address |-> y]>> :
            x \in PublicIpAddresses, y \in PublicIpAddresses}

\* a search that takes any listed resource for the one of the ingress address
MatchingAnyAddress(public_ips, ip) == DOMAIN public_ips

\* if ip.ip_address == self.ingress_ip
Matching(public_ips, ip) == {i \in 1..Len(public_ips) : public_ips[i].ip_address = ip}

\* a for loop without its break: the last resource whose ip_address equals the
\* ingress IP
LastMatch(public_ips, ip) ==
    public_ips[CHOOSE i \in Matching(public_ips, ip) : \A j \in Matching(public_ips, ip) : i >= j]

\* the for loop with break: the first resource whose ip_address equals the ingress IP
FirstMatch(public_ips, ip) ==
    public_ips[CHOOSE i \in Matching(public_ips, ip) : \A j \in Matching(public_ips, ip) : i <= j]

NodeResourceGroup(id) == "MC_" \o ResourceGroupName(id) \o "_" \o AksName(id)

\* the FQDN Azure gives a public address with DNS label `label` in region `loc`
Fqdn(label, loc) == Str(label) \o "." \o loc \o ".cloudapp.azure.com"

\* a configure_dns that keeps the node resource group in self.resource_group
WithNodeResourceGroupAsGroup(s, nrg) == [s EXCEPT !.resource_group = nrg]

\* configure_dns: self.node_resource_group = cluster.node_resource_group
WithNodeResourceGroup(s, nrg) == [s EXCEPT !.node_resource_group = nrg]

\* configure_dns: the local public_ips, once public_ip_addresses.list has returned
DnsFrame(listed, public_ips) ==
    [fn |-> "configure_dns", listed |-> listed,
     public_ips |-> IF listed THEN public_ips ELSE << >>]

configure_dns ==
    /\ pc = "dns_binding"
    /\ UNCHANGED <<loop, racers, args, cloud, answer, prev>>
    /\ \E polled \in IngressIps \cup {""}, cluster_ok \in BOOLEAN, list_ok \in BOOLEAN,
          public_ips \in PublicIpLists, begin_ok \in BOOLEAN, result_ok \in BOOLEAN :
        LET poll == Call("poll_ingress_ip", "istio-ingressgateway")
            get == Call("aks_get", setup.aks_name)
            list == Call("public_ip_list", NodeResourceGroup(setup.unique_id))
            got_ip == [setup EXCEPT !.ingress_ip = polled]
            got_rg == WithNodeResourceGroup(got_ip, NodeResourceGroup(setup.unique_id))
        IN CASE polled = "" ->
                  \* the loop ran out: self.ingress_ip is still None
                  /\ setup' = setup
                  /\ frame' = DnsFrame(FALSE, public_ips)
                  /\ calls' = calls \o <<poll>>
                  /\ Raised("dns_binding")
             [] polled # "" /\ ~cluster_ok ->
                  /\ setup' = got_ip
                  /\ frame' = DnsFrame(FALSE, public_ips)
                  /\ calls' = calls \o <<poll, get>>
                  /\ Raised("dns_binding")
             [] polled # "" /\ cluster_ok /\ ~list_ok ->
                  /\ setup' = got_rg
                  /\ frame' = DnsFrame(FALSE, public_ips)
                  /\ calls' = calls \o <<poll, get, list>>
                  /\ Raised("dns_binding")
             [] polled # "" /\ cluster_ok /\ list_ok /\ Matching(public_ips, polled) = {} ->
                  /\ setup' = got_rg
                  /\ frame' = DnsFrame(TRUE, public_ips)
                  /\ calls' = calls \o <<poll, get, list>>
                  /\ Raised("dns_binding")
             [] polled # "" /\ cluster_ok /\ list_ok /\ Matching(public_ips, polled) # {} ->
                  LET ip_resource == FirstMatch(public_ips, polled)
                      update == Call("public_ip_update", <<ip_resource.name, Str(setup.unique_id)>>)
                      wait == Call("public_ip_update_wait", ip_resource.name)
                  IN /\ frame' = DnsFrame(TRUE, public_ips)
                     /\ calls' = calls \o <<poll, get, list, update>>
                                 \o (IF begin_ok THEN <<wait>> ELSE << >>)
                     /\ setup' = IF begin_ok /\ result_ok
                                 THEN [got_rg EXCEPT !.fqdn = Fqdn(setup.unique_id, setup.location)]
                                 ELSE got_rg
                     /\ Outcome("dns_binding", begin_ok /\ result_ok)

\* install_cert_manager: helm repo add, repo update, install, three waits
CertManagerSteps ==
    << Call("helm_repo_add", "jetstack"),
       Call("helm_repo_update", ""),
       Call("helm_install", "cert-manager"),
       Call("wait_deployment", "cert-manager"),
       Call("wait_deployment", "cert-manager-cainjector"),
       Call("wait_deployment", "cert-manager-webhook") >>

HelmInstallAt == 3

install_cert_manager ==
    /\ pc = "cert_manager_install"
    /\ frame' = NoFrame
    /\ UNCHANGED <<loop, racers, args, setup, answer, prev>>
    /\ \E k \in 0..Len(CertManagerSteps) :
        \* helm install fails when the release name is still in use
        /\ cloud.cert_manager => k < HelmInstallAt
        /\ calls' = calls \o Issued(CertManagerSteps, k)
        /\ cloud' = IF k >= HelmInstallAt THEN [cloud EXCEPT !.cert_manager = TRUE] ELSE cloud
        /\ Outcome("cert_manager_install", k = Len(CertManagerSteps))

\* create_cluster_issuer: the ACME server of the issuer class
AcmeServer(issuer_type) ==
    IF issuer_type = "staging"
    THEN "https://acme-staging-v02.api.letsencrypt.org/directory"
    ELSE "https://acme-v02.api.letsencrypt.org/directory"

\* create_cluster_issuer: metadata.name and privateKeySecretRef.name
IssuerName(issuer_type) == "letsencrypt-" \o issuer_type

\* issuer_yaml
ClusterIssuerDoc(issuer_type, fqdn) ==
    [resource_type |-> "ClusterIssuer", kind |-> "ClusterIssuer",
     name |-> IssuerName(issuer_type), server |-> AcmeServer(issuer_type),
     email |-> "admin@" \o fqdn, privateKeySecretRef |-> IssuerName(issuer_type)]

create_cluster_issuer ==
    /\ pc = "issuer_create"
    /\ frame' = NoFrame
    /\ UNCHANGED <<loop, racers, args, setup, cloud, answer, prev>>
    /\ StepsStage("issuer_create",
          << Call("kubectl_apply", ClusterIssuerDoc(setup.issuer_type, setup.fqdn)) >>)

\* a certificate template whose issuer reference was left at the staging issuer
IssuerRefNameStagingOnly(issuer_type) == "letsencrypt-staging"

\* create_certificate: issuerRef.name
IssuerRefName(issuer_type) == "letsencrypt-" \o issuer_type

\* cert_yaml
CertificateDoc(issuer_type, fqdn) ==
    [resource_type |-> "Certificate", kind |-> "Certificate",
     commonName |-> fqdn, dnsNames |-> <<fqdn>>,
     issuerRef |-> [name |-> IssuerRefName(issuer_type), kind |-> "ClusterIssuer"]]

\* a certificate stage that waits for the certificate to be issued
CertificateStepsWithWait(issuer_type, fqdn) ==
    << Call("kubectl_apply", CertificateDoc(issuer_type, fqdn)),
       Call("wait_certificate", "istio-ingressgateway-certs") >>

\* create_certificate: self._kubectl_apply(cert_yaml, "Certificate"), nothing else
CertificateSteps(issuer_type, fqdn) ==
    << Call("kubectl_apply", CertificateDoc(issuer_type, fqdn)) >>

create_certificate ==
    /\ pc = "certificate_create"
    /\ frame' = NoFrame
    /\ UNCHANGED <<loop, racers, args, setup, cloud, answer, prev>>
    /\ StepsStage("certificate_create", CertificateSteps(setup.issuer_type, setup.fqdn))

\* configure_azure_policy_demo: two pod checks; when both find pods, the policy
\* assignment, the test pod, the violation report and the fixed service
PolicyDemoChecks ==
    << Step("kubectl_get_pods", "azure-policy", FALSE),
       Step("kubectl_get_pods", "gatekeeper-system", FALSE) >>

PolicyDemoSteps ==
    << Step("az_policy_definition_list", "", FALSE),
       Step("az_policy_assignment_create", "demo-policy-assignment-" \o Str(setup.unique_id), FALSE),
       Step("kubectl_create_namespace", "sample-app", FALSE),
       Call("kubectl_apply", Doc("Test Pod (Policy Demo)")),
       Step("kubectl_get_constraint", "must-have-pod-selector", FALSE),
       Call("kubectl_get_svc_yaml", "test-empty-selector"),
       Call("kubectl_apply", Doc("Fixed Service")),
       Step("kubectl_get_constraint", "must-have-pod-selector", FALSE) >>

configure_azure_policy_demo ==
    /\ pc = "policy_demo"
    /\ frame' = NoFrame
    /\ UNCHANGED <<loop, racers, args, setup, cloud, answer, prev>>
    /\ \E azure_policy_running \in BOOLEAN, gatekeeper_running \in BOOLEAN :
        StepsStage("policy_demo",
                   PolicyDemoChecks
                   \o (IF azure_policy_running /\ gatekeeper_running
                       THEN PolicyDemoSteps ELSE << >>))

configure_gateway ==
    /\ pc = "gateway_configure"
    /\ frame' = NoFrame
    /\ UNCHANGED <<loop, racers, args, setup, cloud, answer, prev>>
    /\ StepsStage("gateway_configure",
          << Step("kubectl_create_namespace", "sample-app", FALSE),
             Call("kubectl_apply", [resource_type |-> "Gateway & HTTPRoute", hostname |-> setup.fqdn]) >>)

deploy_sample_app ==
    /\ pc = "workload_deploy"
    /\ frame' = NoFrame
    /\ UNCHANGED <<loop, racers, args, setup, cloud, answer, prev>>
    /\ StepsStage("workload_deploy",
          << Call("kubectl_label_namespace", "sample-app"),
             Call("kubectl_apply_url", "bookinfo"),
             Call("wait_deployment", "productpage-v1"),
             Call("wait_deployment", "reviews-v1"),
             Call("wait_deployment", "reviews-v2"),
             Call("wait_deployment", "reviews-v3"),
             Call("wait_deployment", "ratings-v1"),
             Call("wait_deployment", "details-v1") >>)

configure_opa_authorization_policies ==
    /\ pc = "authz_policy_configure"
    /\ frame' = NoFrame
    /\ UNCHANGED <<loop, racers, args, setup, cloud, answer, prev>>
    /\ StepsStage("authz_policy_configure",
          << Call("kubectl_apply", Doc("OPA Authorization Policy (sample-app)")) >>)

\* check_policy_violations: `import json` in the first branch makes json a local
\* name of the function; the second branch reads it unbound when the first
\* command failed and the second succeeded
check_policy_violations ==
    /\ pc = "violation_check"
    /\ frame' = NoFrame
    /\ UNCHANGED <<loop, racers, args, setup, cloud, answer, prev>>
    /\ \E constraints_rc \in {0, 1}, events_rc \in {0, 1} :
        /\ calls' = calls \o << Step("kubectl_get_constraints", "", FALSE),
                                Step("kubectl_get_events", "sample-app", FALSE) >>
        /\ Outcome("violation_check", ~(constraints_rc # 0 /\ events_rc = 0))

\* test_setup: both requests are wrapped in try/except Exception
test_setup ==
    /\ pc = "smoke_test"
    /\ frame' = NoFrame
    /\ UNCHANGED <<loop, racers, args, setup, cloud, answer, prev>>
    /\ calls' = calls \o << Step("http_get", "http://" \o setup.fqdn \o "/productpage", FALSE),
                            Step("http_get", "https://" \o setup.fqdn \o "/productpage", FALSE) >>
    /\ Returned("smoke_test")

demo_opa_external_authz ==
    /\ pc = "authz_demo"
    /\ frame' = NoFrame
    /\ UNCHANGED <<loop, racers, args, setup, cloud, answer, prev>>
    /\ StepsStage("authz_demo",
          << Call("kubectl_apply", Doc("OPA Test Client")),
             Step("kubectl_exec", "productpage", FALSE),
             Step("kubectl_patch", "reviews-v1", FALSE),
             Step("kubectl_exec", "reviews", FALSE),
             Step("kubectl_exec", "reviews authorized", FALSE),
             Step("kubectl_logs", "opa", FALSE) >>)

\* display_summary only prints
display_summary ==
    /\ pc = "summary"
    /\ frame' = NoFrame
    /\ UNCHANGED <<loop, racers, args, setup, cloud, answer, prev, calls>>
    /\ Returned("summary")

(***************************************************************************)
(* The operator starts the script again for the same session, as the       *)
(* summary instructs: --unique-id <token>, with or without --cleanup.      *)
(***************************************************************************)
Rerun ==
    /\ pc = "done"
    /\ setup.constructed
    /\ \E c \in BOOLEAN :
        args' = [args EXCEPT !.unique_id = setup.unique_id, !.cleanup = c]
    /\ prev' = [constructed |-> TRUE, unique_id |-> setup.unique_id,
                resource_group |-> setup.resource_group, aks_name |-> setup.aks_name,
                cloud |-> cloud]
    /\ setup' = NoSetup
    /\ pc' = "main"
    /\ exit_status' = << >>
    /\ started' = << >>
    /\ finished' = << >>
    /\ raised' = << >>
    /\ calls' = << >>
    /\ answer' = "none"
    /\ frame' = NoFrame
    /\ UNCHANGED <<cloud, loop, racers>>

Next ==
    \/ Main
    \/ Cleanup
    \/ check_prerequisites
    \/ create_resource_group
    \/ create_aks_cluster
    \/ install_istio
    \/ deploy_opa_external_authz
    \/ configure_dns
    \/ install_cert_manager
    \/ create_cluster_issuer
    \/ create_certificate
    \/ configure_azure_policy_demo
    \/ configure_gateway
    \/ deploy_sample_app
    \/ configure_opa_authorization_policies
    \/ check_policy_violations
    \/ test_setup
    \/ demo_opa_external_authz
    \/ display_summary
    \/ Rerun

Spec == Init /\ [][Next]_vars

(***************************************************************************)
(* The three polling loops, one step per iteration: the readiness wait of  *)
(* create_aks_cluster, the deployment wait, and the ingress address loop   *)
(* of configure_dns.  `loop` holds the loop index i, the seconds elapsed    *)
(* since the loop began, the elapsed time `at` which the last call was     *)
(* made, the last observation and the result of every evaluation of the    *)
(* predicate so far.  The clock of the model never runs backwards.         *)
(***************************************************************************)
max_retries == 30

timeout == 300

\* time.sleep(10) between two attempts of a for loop
RetrySleep == 10

\* time.sleep(5) between two attempts of the deployment wait
DeploymentSleep == 5

\* time.sleep(30) once a node is Ready
NetworkSleep == 30

\* the seconds one kubectl call can take
CallDurations == {0, 60}

Condition(type, status) == [type |-> type, status |-> status]

\* the status.conditions list of a node (empty when the node has no status)
NodeConditions ==
    { << >>,
      << Condition("MemoryPressure", "False"), Condition("Ready", "True") >>,
      << Condition("MemoryPressure", "False"), Condition("Ready", "False") >> }

\* the items of `kubectl get nodes -o json`
NodeItems ==
    {<< >>} \cup {<<n>> : n \in NodeConditions}
    \cup {<<n, m>> : n \in NodeConditions \ {<< >>}, m \in NodeConditions \ {<< >>}}

\* an observation of the nodes: the exit status, whether stdout is JSON, the items
NodeObs ==
    {[rc |-> 1, parsed |-> FALSE, items |-> << >>], [rc |-> 0, parsed |-> FALSE, items |-> << >>]}
    \cup {[rc |-> 0, parsed |-> TRUE, items |-> it] : it \in NodeItems}

\* any(c.get("type") == "Ready" and c.get("status") == "True" for c in conditions)
AnyReady(conditions) ==
    \E k \in DOMAIN conditions : conditions[k].type = "Ready" /\ conditions[k].status = "True"

\* a node predicate that is satisfied by any ready node of the list
NodeReadyAnyNode(o) ==
    IF o.rc = 0 /\ o.parsed
    THEN \E n \in DOMAIN o.items : AnyReady(o.items[n])
    ELSE FALSE

\* the predicate of _wait_for_cluster_readiness; an exception of json.loads is
\* swallowed by the bare except
NodeReady(o) ==
    IF o.rc = 0 /\ o.parsed
    THEN IF Len(o.items) > 0 THEN AnyReady(o.items[1]) ELSE FALSE
    ELSE FALSE

\* a JSON member that may be missing: << >> or <<value>>
Get(member, default) == IF member = << >> THEN default ELSE member[1]

\* an observation of a deployment: status.readyReplicas and spec.replicas
DeploymentObs ==
    {[rc |-> 1, parsed |-> FALSE, readyReplicas |-> << >>, replicas |-> << >>],
     [rc |-> 0, parsed |-> FALSE, readyReplicas |-> << >>, replicas |-> << >>]}
    \cup {[rc |-> 0, parsed |-> TRUE, readyReplicas |-> r, replicas |-> n] :
            r \in {<< >>, <<0>>, <<1>>, <<2>>, <<3>>}, n \in {<< >>, <<0>>, <<1>>, <<2>>, <<3>>}}

\* a deployment predicate that takes a missing spec.replicas for 0
DeploymentReadyDesiredZero(o) ==
    IF o.rc = 0 /\ o.parsed
    THEN Get(o.readyReplicas, 0) >= Get(o.replicas, 0)
    ELSE FALSE

\* the predicate of _wait_for_deployment
DeploymentReady(o) ==
    IF o.rc = 0 /\ o.parsed
    THEN Get(o.readyReplicas, 0) >= Get(o.replicas, 1)
    ELSE FALSE

Whitespace == {" ", "\n"}

RECURSIVE lstrip(_)
lstrip(s) == IF s # << >> /\ Head(s) \in Whitespace THEN lstrip(Tail(s)) ELSE s

RECURSIVE rstrip(_)
rstrip(s) ==
    IF s # << >> /\ s[Len(s)] \in Whitespace THEN rstrip(SubSeq(s, 1, Len(s) - 1)) ELSE s

\* str.strip() of a stdout given as a sequence of pieces
strip(s) == rstrip(lstrip(s))

\* an observation of the ingress service: the exit status and the jsonpath output
IngressObs ==
    {[rc |-> 1, stdout |-> << >>], [rc |-> 0, stdout |-> << >>], [rc |-> 0, stdout |-> <<"\n">>]}
    \cup {[rc |-> c, stdout |-> <<ip>> \o nl] : c \in {0, 1}, ip \in IngressIps, nl \in {<< >>, <<"\n">>}}

\* result.returncode == 0 and result.stdout.strip()
IngressReady(o) == o.rc = 0 /\ Str(strip(o.stdout)) # ""

\* a for loop that runs its body once more than range(max_retries)
LoopGoesOnInclusive(i) == i <= max_retries

\* for i in range(max_retries)
LoopGoesOn(i) == i < max_retries

\* a deployment wait given a number of attempts in place of its deadline
WithinAttempts(l) == l.i < 60

\* while time.time() - start_time < timeout
WithinDeadline(l) == l.elapsed < timeout

\* a loop that lost its return
AfterEvaluationNoReturn(ready) == "polling"

\* if <predicate>: return (break, in configure_dns); otherwise the loop sleeps
\* and goes on
AfterEvaluation(ready) == IF ready THEN "returned" ELSE "polling"

\* a loop in which a non-zero exit of the query command raises
IteratedRaisesOnFailedCall(o, d, ready, sleep) ==
    [loop EXCEPT !.last = o,
                 !.results = Append(@, ready),
                 !.status = IF o.rc # 0 THEN "error" ELSE AfterEvaluation(ready),
                 !.i = IF AfterEvaluation(ready) = "polling" THEN @ + 1 ELSE @,
                 !.at = loop.elapsed,
                 !.elapsed = @ + d + sleep]

\* the loop after one more iteration: the call was made at `elapsed`, took d
\* seconds, observed o, and the loop slept before it returned or went on
Iterated(o, d, ready, sleep) ==
    [loop EXCEPT !.last = o,
                 !.results = Append(@, ready),
                 !.status = AfterEvaluation(ready),
                 !.i = IF AfterEvaluation(ready) = "polling" THEN @ + 1 ELSE @,
                 !.at = loop.elapsed,
                 !.elapsed = @ + d + sleep]

\* a wait that starts over when it has run out
OnTimeoutStartOver(l) ==
    [l EXCEPT !.i = 0, !.elapsed = 0, !.at = 0, !.last = << >>, !.results = << >>]

\* the raise behind the loop: the wait is over, with a timeout error
OnTimeout(l) == [l EXCEPT !.status = "timeout"]

_wait_for_cluster_readiness ==
    /\ loop.kind = "node"
    /\ loop.status = "polling"
    /\ UNCHANGED <<args, setup, pc, exit_status, started, finished, raised, calls, cloud, answer, prev, frame, racers>>
    /\ IF LoopGoesOn(loop.i)
       THEN \E o \in NodeObs, d \in CallDurations :
                loop' = Iterated(o, d, NodeReady(o),
                                 IF NodeReady(o) THEN NetworkSleep ELSE RetrySleep)
       ELSE \* raise Exception("Timeout waiting for cluster readiness")
            loop' = OnTimeout(loop)

_wait_for_deployment ==
    /\ loop.kind = "deployment"
    /\ loop.status = "polling"
    /\ UNCHANGED <<args, setup, pc, exit_status, started, finished, raised, calls, cloud, answer, prev, frame, racers>>
    /\ IF WithinDeadline(loop)
       THEN \E o \in DeploymentObs, d \in CallDurations :
                loop' = Iterated(o, d, DeploymentReady(o),
                                 IF DeploymentReady(o) THEN 0 ELSE DeploymentSleep)
       ELSE \* raise Exception(f"Timeout waiting for {deployment} deployment")
            loop' = OnTimeout(loop)

\* configure_dns, "# Get ingress IP": the loop, and the raise behind it when
\* self.ingress_ip is still None
get_ingress_ip ==
    /\ loop.kind = "ingress"
    /\ loop.status = "polling"
    /\ UNCHANGED <<args, pc, exit_status, started, finished, raised, calls, cloud, answer, prev, frame, racers>>
    /\ IF LoopGoesOn(loop.i)
       THEN \E o \in IngressObs, d \in CallDurations :
                /\ loop' = Iterated(o, d, IngressReady(o),
                                    IF IngressReady(o) THEN 0 ELSE RetrySleep)
                /\ setup' = IF IngressReady(o)
                            THEN [setup EXCEPT !.ingress_ip = Str(strip(o.stdout))]
                            ELSE setup
       ELSE \* raise Exception("Could not get ingress IP")
            /\ loop' = OnTimeout(loop)
            /\ setup' = setup

PollKinds == {"node", "deployment", "ingress"}

\* the stage of run() in which the model follows the loop
PollStage(kind) ==
    CASE kind = "node" -> "cluster"
      [] kind = "deployment" -> "mesh_install"
      [] kind = "ingress" -> "dns_binding"

\* a session in the stage that runs the loop, the loop about to begin
PollInit ==
    /\ loop \in {[kind |-> k, status |-> "polling", i |-> 0, elapsed |-> 0, at |-> 0,
                   last |-> << >>, results |-> << >>] : k \in PollKinds}
    /\ args = [unique_id |-> ExampleToken, location |-> "eastus",
               issuer_type |-> "staging", cleanup |-> FALSE]
    /\ setup = NewSetup(ExampleToken, "eastus", "staging")
    /\ pc = PollStage(loop.kind)
    /\ exit_status = << >>
    /\ started = SubSeq(RunOrder, 1, StageIndex(pc) - 1)
    /\ finished = started
    /\ raised = << >>
    /\ calls = << >>
    /\ cloud = [rg |-> TRUE, aks |-> TRUE, mesh |-> loop.kind = "ingress", cert_manager |-> FALSE]
    /\ answer = "none"
    /\ prev = NoPrev
    /\ frame = NoFrame
    /\ racers = NoRacers

PollNext ==
    \/ _wait_for_cluster_readiness
    \/ _wait_for_deployment
    \/ get_ingress_ip

PollSpec == PollInit /\ [][PollNext]_vars

(***************************************************************************)
(* _run_command and _kubectl_apply, one call at a time: the child process, *)
(* what the helper returns or raises, what the calling stage makes of it   *)
(* and what the outer handler of run() prints. Texts are sequences of      *)
(* pieces.                                                                 *)
(***************************************************************************)
\* the exit status, stdout and stderr a child process can end with
Processes ==
    [rc : {0, 1, 2}, stdout : {<< >>, <<"ok", "\n">>},
     stderr : {<< >>, <<"AuthorizationFailed", "\n">>}]

\* create_resource_group: cmd (the date tag left out)
RgCreateCmd(s) ==
    <<"az", "group", "create", "-n", s.resource_group, "-l", s.location,
      "--tags", "CREATED_BY=AKS-Istio-Script">>

\* create_aks_cluster: create_cmd (the sizing options and the date tag left out)
AksCreateCmd(s) ==
    <<"az", "aks", "create", "--resource-group", s.resource_group, "--name", s.aks_name,
      "--tags", "CREATED_BY=AKS-Istio-Python-Script">>

\* the callers whose call is a creation call, and the stage of each caller
Creators == {"create_resource_group", "create_aks_cluster"}

CallerStage(caller) ==
    CASE caller = "create_resource_group" -> "resource_group"
      [] caller = "create_aks_cluster" -> "cluster"
      [] caller = "_wait_for_cluster_readiness" -> "cluster"
      [] caller = "deploy_opa_external_authz" -> "external_authz_deploy"
      [] caller = "install_cert_manager" -> "cert_manager_install"
      [] caller = "create_cluster_issuer" -> "issuer_create"
      [] caller = "create_certificate" -> "certificate_create"

\* a helper about to run: its arguments, and nothing done yet
HelperFrame(fn, caller, command, yaml_content, check, display) ==
    [fn |-> fn, caller |-> caller, command |-> command, yaml_content |-> yaml_content,
     check |-> check, display |-> display,
     status |-> "called", caller_status |-> "waiting", exited |-> FALSE,
     spawned |-> 0, stdin |-> << >>, console |-> << >>,
     process |-> << >>, result |-> << >>, error |-> << >>]

\* the calls of _run_command the model follows: the two creation calls (check
\* and display left at their defaults), a poll's query and the mesh
\* configuration (check=False) and a helm command (check by default)
RunCommandCalls(s) ==
    {HelperFrame("_run_command", "create_resource_group", RgCreateCmd(s), << >>, TRUE, TRUE),
     HelperFrame("_run_command", "create_aks_cluster", AksCreateCmd(s), << >>, TRUE, TRUE),
     HelperFrame("_run_command", "_wait_for_cluster_readiness",
                 <<"kubectl", "get", "nodes", "-o", "json">>, << >>, FALSE, TRUE),
     HelperFrame("_run_command", "deploy_opa_external_authz",
                 <<"istioctl", "install", "-y">>, << >>, FALSE, TRUE),
     HelperFrame("_run_command", "install_cert_manager",
                 <<"helm", "repo", "update">>, << >>, TRUE, TRUE)}

\* the calls of _kubectl_apply the model follows
KubectlApplyCalls(s) ==
    {HelperFrame("_kubectl_apply", "create_cluster_issuer", <<"kubectl", "apply", "-f", "-">>,
                 ClusterIssuerDoc(s.issuer_type, "x.eastus.cloudapp.azure.com"), FALSE, TRUE),
     HelperFrame("_kubectl_apply", "create_certificate", <<"kubectl", "apply", "-f", "-">>,
                 CertificateDoc(s.issuer_type, "x.eastus.cloudapp.azure.com"), FALSE, TRUE)}

\* subprocess.CompletedProcess(args, returncode, stdout, stderr)
CompletedProcess(command, p) ==
    [args |-> command, returncode |-> p.rc, stdout |-> p.stdout, stderr |-> p.stderr]

RcStr(rc) == CASE rc = 0 -> "0" [] rc = 1 -> "1" [] rc = 2 -> "2"

\* subprocess.CalledProcessError: cmd, returncode, output and stderr are
\* attributes; str(e) names the command and the exit status only
CalledProcessError(command, p) ==
    [type |-> "CalledProcessError", cmd |-> command, returncode |-> p.rc,
     output |-> p.stdout, stderr |-> p.stderr,
     str |-> <<"Command '">> \o command \o <<"' returned non-zero exit status ", RcStr(p.rc), ".">>]

\* Exception(message)
PlainException(message) == [type |-> "Exception", str |-> message]

\* a subprocess.run that checks the exit status whatever `check` says
CheckedAlways(check, rc) == rc # 0

\* subprocess.run(..., check=check): raises CalledProcessError on a non-zero
\* exit status when check is true
Checked(check, rc) == check /\ rc # 0

_run_command ==
    /\ frame.fn = "_run_command"
    /\ frame.status = "called"
    /\ UNCHANGED <<args, setup, pc, exit_status, started, finished, raised, calls, cloud, answer, prev, loop, racers>>
    /\ \E p \in Processes :
        frame' = [frame EXCEPT
                    !.console = IF frame.display THEN @ \o frame.command ELSE @,
                    !.spawned = @ + 1,
                    !.process = <<p>>,
                    !.status = IF Checked(frame.check, p.rc) THEN "raised" ELSE "returned",
                    !.result = IF Checked(frame.check, p.rc)
                               THEN << >> ELSE <<CompletedProcess(frame.command, p)>>,
                    !.error = IF Checked(frame.check, p.rc)
                              THEN <<CalledProcessError(frame.command, p)>> ELSE << >>]

\* an applier whose error leaves out the diagnostic stream
ApplyFailedNoDiagnostics(stderr) == PlainException(<<"kubectl apply failed">>)

\* raise Exception(f"kubectl apply failed: {stderr}")
ApplyFailed(stderr) == PlainException(<<"kubectl apply failed: ">> \o stderr)

_kubectl_apply ==
    /\ frame.fn = "_kubectl_apply"
    /\ frame.status = "called"
    /\ UNCHANGED <<args, setup, pc, exit_status, started, finished, raised, calls, cloud, answer, prev, loop, racers>>
    /\ \E p \in Processes :
        frame' = [frame EXCEPT
                    !.spawned = @ + 1,
                    !.stdin = Append(@, frame.yaml_content),
                    !.process = <<p>>,
                    !.console = IF p.rc = 0
                                THEN Append(@, "created successfully")
                                ELSE Append(@, "Failed to create") \o strip(p.stderr),
                    !.status = IF p.rc = 0 THEN "returned" ELSE "raised",
                    !.caller_status = IF p.rc = 0 THEN "returned" ELSE "raised",
                    !.error = IF p.rc = 0 THEN << >> ELSE <<ApplyFailed(p.stderr)>>]

CreationFailed(caller) ==
    IF caller = "create_resource_group"
    THEN "Failed to create resource group" ELSE "Failed to create AKS cluster"

\* create_resource_group and create_aks_cluster after _run_command has returned:
\* the test of result.returncode, the "Error Output" panel and the raise
creation_result ==
    /\ frame.fn = "_run_command"
    /\ frame.caller \in Creators
    /\ frame.status = "returned"
    /\ frame.caller_status = "waiting"
    /\ UNCHANGED <<args, setup, pc, exit_status, started, finished, raised, calls, cloud, answer, prev, loop, racers>>
    /\ LET result == frame.result[1]
       IN IF result.returncode = 0
          THEN frame' = [frame EXCEPT !.caller_status = "returned",
                                      !.console = Append(@, "created")]
          ELSE frame' = [frame EXCEPT
                           !.caller_status = "raised",
                           !.console = Append(@, CreationFailed(frame.caller))
                                       \o strip(result.stderr),
                           !.error = <<PlainException(<<CreationFailed(frame.caller)>>)>>]

\* run(): except Exception as e: console.print(f"Error: {e}"); sys.exit(1). An
\* exception of the helper passes through the stage method, which has no handler
run_except ==
    /\ frame.fn \in {"_run_command", "_kubectl_apply"}
    /\ frame.status = "raised" \/ frame.caller_status = "raised"
    /\ ~frame.exited
    /\ frame' = [frame EXCEPT !.caller_status = "raised",
                               !.exited = TRUE,
                               !.console = Append(@, "Error: ") \o frame.error[1].str]
    /\ raised' = Append(raised, pc)
    /\ started' = Append(started, pc)
    /\ pc' = "done"
    /\ exit_status' = <<1>>
    /\ UNCHANGED <<args, setup, finished, calls, cloud, answer, prev, loop, racers>>

\* a session in the stage of the caller, one helper call about to run
HelperInit ==
    /\ args \in [unique_id : {ExampleToken}, location : {"eastus"},
                 issuer_type : IssuerTypes, cleanup : {FALSE}]
    /\ setup = NewSetup(args.unique_id, args.location, args.issuer_type)
    /\ frame \in RunCommandCalls(setup) \cup KubectlApplyCalls(setup)
    /\ pc = CallerStage(frame.caller)
    /\ exit_status = << >>
    /\ started = SubSeq(RunOrder, 1, StageIndex(pc) - 1)
    /\ finished = started
    /\ raised = << >>
    /\ calls = << >>
    /\ cloud = NoCloud
    /\ answer = "none"
    /\ prev = NoPrev
    /\ loop = NoPoll
    /\ racers = NoRacers

HelperNext ==
    \/ _run_command
    \/ _kubectl_apply
    \/ creation_result
    \/ run_except

HelperSpec == HelperInit /\ [][HelperNext]_vars

(***************************************************************************)
(* Two processes started with the same token, each in create_resource_group*)
(* and create_aks_cluster, step by step: the lookup and the creation call  *)
(* of a stage are two calls to Azure, and the other process may run        *)
(* between them.                                                           *)
(***************************************************************************)
Runs == {1, 2}

\* a process entering create_resource_group
NewRun == [at |-> "rg_lookup", rg |-> "none", aks |-> "none", issued |-> << >>]

\* a creation call guarded by a second look at the resource
NeedsCreateRechecked(ans, exists) == ~Adopts(ans) /\ ~exists

\* try: get(...); return / except: pass. The stage goes on to its creation
\* call on what its lookup answered; it does not look at the resource again
NeedsCreate(ans, exists) == ~Adopts(ans)

\* create_resource_group: the call self.resource_client.resource_groups.get
rg_lookup(p) ==
    /\ racers[p].at = "rg_lookup"
    /\ \E ans \in LookupAnswers(cloud.rg) :
        racers' = [racers EXCEPT ![p].rg = ans, ![p].at = "rg_create"]
    /\ UNCHANGED <<args, setup, pc, exit_status, started, finished, raised, calls, cloud, answer, prev, loop, frame>>

\* create_resource_group after the lookup: return when it found the group,
\* otherwise az group create, CalledProcessError when it fails
rg_create(p) ==
    /\ racers[p].at = "rg_create"
    /\ IF NeedsCreate(racers[p].rg, cloud.rg)
       THEN \E created \in BOOLEAN :
            /\ racers' = [racers EXCEPT
                            ![p].issued = Append(@, Call("rg_create", setup.resource_group)),
                            ![p].at = IF created THEN "aks_lookup" ELSE "failed"]
            /\ cloud' = IF created THEN [cloud EXCEPT !.rg = TRUE] ELSE cloud
       ELSE /\ racers' = [racers EXCEPT ![p].at = "aks_lookup"]
            /\ cloud' = cloud
    /\ UNCHANGED <<args, setup, pc, exit_status, started, finished, raised, calls, answer, prev, loop, frame>>

\* create_aks_cluster: the call self.aks_client.managed_clusters.get
aks_lookup(p) ==
    /\ racers[p].at = "aks_lookup"
    /\ \E ans \in LookupAnswers(cloud.aks) :
        racers' = [racers EXCEPT ![p].aks = ans, ![p].at = "aks_create"]
    /\ UNCHANGED <<args, setup, pc, exit_status, started, finished, raised, calls, cloud, answer, prev, loop, frame>>

\* create_aks_cluster after the lookup: return when it found the cluster,
\* otherwise az aks create, CalledProcessError when it fails
aks_create(p) ==
    /\ racers[p].at = "aks_create"
    /\ IF NeedsCreate(racers[p].aks, cloud.aks)
       THEN \E created \in BOOLEAN :
            /\ racers' = [racers EXCEPT
                            ![p].issued = Append(@, Call("aks_create", setup.aks_name)),
                            ![p].at = IF created THEN "returned" ELSE "failed"]
            /\ cloud' = IF created THEN [cloud EXCEPT !.aks = TRUE] ELSE cloud
       ELSE /\ racers' = [racers EXCEPT ![p].at = "returned"]
            /\ cloud' = cloud
    /\ UNCHANGED <<args, setup, pc, exit_status, started, finished, raised, calls, answer, prev, loop, frame>>

\* two sessions of one token, both past the prerequisites, nothing created yet
\* or the resource group left by an earlier run
RaceInit ==
    /\ args = [unique_id |-> ExampleToken, location |-> "eastus",
               issuer_type |-> "staging", cleanup |-> FALSE]
    /\ setup = NewSetup(ExampleToken, "eastus", "staging")
    /\ racers = [p \in Runs |-> NewRun]
    /\ cloud \in {NoCloud, [NoCloud EXCEPT !.rg = TRUE]}
    /\ pc = "resource_group"
    /\ exit_status = << >>
    /\ started = SubSeq(RunOrder, 1, StageIndex(pc) - 1)
    /\ finished = started
    /\ raised = << >>
    /\ calls = << >>
    /\ answer = "none"
    /\ prev = NoPrev
    /\ loop = NoPoll
    /\ frame = NoFrame

RaceNext ==
    \E p \in Runs :
        \/ rg_lookup(p)
        \/ rg_create(p)
        \/ aks_lookup(p)
        \/ aks_create(p)

RaceSpec == RaceInit /\ [][RaceNext]_vars
(***************************************************************************)
(* Runs to their end: a run from main() with its stages as single steps,   *)
(* and a run followed from inside each polling loop, iteration by          *)
(* iteration, through the rest of its stage and the stages behind it. The  *)
(* process keeps running: every external call returns and sleep() ends.    *)
(***************************************************************************)
\* the polling loop is over; only how it ended is kept
Ended(l) == [NoPoll EXCEPT !.kind = l.kind, !.status = l.status]

\* the stage method after its polling loop: a timeout error leaves the stage,
\* after a return the remaining calls of the stage succeed or one of them raises
stage_after_poll ==
    /\ pc = "polling"
    /\ loop.status \in {"returned", "timeout"}
    /\ loop' = Ended(loop)
    /\ frame' = NoFrame
    /\ UNCHANGED <<racers, args, calls, answer, prev>>
    /\ \E ok \in BOOLEAN :
        LET done == loop.status = "returned" /\ ok
        IN /\ cloud' = IF loop.kind = "deployment" THEN [cloud EXCEPT !.mesh = TRUE] ELSE cloud
           /\ setup' = IF loop.kind = "ingress" /\ done
                       THEN [WithNodeResourceGroup(setup, NodeResourceGroup(setup.unique_id))
                               EXCEPT !.fqdn = Fqdn(setup.unique_id, setup.location)]
                       ELSE setup
           /\ Outcome(PollStage(loop.kind), done)

\* a provisioning process at main(), or a session inside one of its polling loops
LiveInit ==
    \/ /\ Init
       /\ ~args.cleanup
    \/ /\ loop \in {[kind |-> k, status |-> "polling", i |-> 0, elapsed |-> 0, at |-> 0,
                      last |-> << >>, results |-> << >>] : k \in PollKinds}
       /\ args = [unique_id |-> ExampleToken, location |-> "eastus",
                  issuer_type |-> "staging", cleanup |-> FALSE]
       /\ setup = NewSetup(ExampleToken, "eastus", "staging")
       /\ pc = "polling"
       /\ exit_status = << >>
       /\ started = SubSeq(RunOrder, 1, StageIndex(PollStage(loop.kind)) - 1)
       /\ finished = started
       /\ raised = << >>
       /\ calls = << >>
       /\ cloud = [rg |-> TRUE, aks |-> TRUE, mesh |-> loop.kind = "ingress", cert_manager |-> FALSE]
       /\ answer = "none"
       /\ prev = NoPrev
       /\ frame = NoFrame
       /\ racers = NoRacers

LiveNext ==
    \/ Main
    \/ check_prerequisites
    \/ create_resource_group
    \/ create_aks_cluster
    \/ install_istio
    \/ deploy_opa_external_authz
    \/ configure_dns
    \/ install_cert_manager
    \/ create_cluster_issuer
    \/ create_certificate
    \/ configure_azure_policy_demo
    \/ configure_gateway
    \/ deploy_sample_app
    \/ configure_opa_authorization_policies
    \/ check_policy_violations
    \/ test_setup
    \/ demo_opa_external_authz
    \/ display_summary
    \/ _wait_for_cluster_readiness
    \/ _wait_for_deployment
    \/ get_ingress_ip
    \/ stage_after_poll

LiveSpec == LiveInit /\ [][LiveNext]_vars /\ WF_vars(LiveNext)

(***************************************************************************)
(* test_setup request by request, and the run from there to its end.       *)
(***************************************************************************)
\* what httpx.get can end with: a response with its status code, or an
\* exception (connection error, TLS error, timeout)
HttpOutcomes == {"200", "503", "Error"}

\* test_table.add_row(protocol, url, status, result)
TestRow(protocol, url, outcome) ==
    [protocol |-> protocol, url |-> url, status |-> outcome,
     result |-> CASE outcome = "200" -> "Success"
                  [] outcome = "Error" -> "Failed"
                  [] OTHER -> "Status: " \o outcome]

\* a request that is not wrapped: its exception leaves test_setup
RequestRaisesOnError(outcome) == outcome # "Error"

\* try: httpx.get(...) / except Exception: add_row(..., "Error", ...): a
\* request never leaves test_setup with an exception, and a status other than
\* 200 is only reported
RequestReturns(outcome) == TRUE

\* test_setup, "# Test HTTP"
test_setup_http ==
    /\ pc = "smoke_test"
    /\ frame = NoFrame
    /\ UNCHANGED <<loop, racers, args, setup, cloud, answer, prev>>
    /\ \E outcome \in HttpOutcomes :
        LET http_url == "http://" \o setup.fqdn \o "/productpage"
        IN /\ calls' = Append(calls, Step("http_get", http_url, FALSE))
           /\ IF RequestReturns(outcome)
              THEN /\ frame' = [fn |-> "test_setup",
                                test_table |-> <<TestRow("HTTP", http_url, outcome)>>]
                   /\ UNCHANGED <<pc, exit_status, started, finished, raised>>
              ELSE /\ frame' = NoFrame
                   /\ Raised("smoke_test")

\* test_setup, "# Test HTTPS", and console.print(test_table)
test_setup_https ==
    /\ pc = "smoke_test"
    /\ frame # NoFrame
    /\ UNCHANGED <<loop, racers, args, setup, cloud, answer, prev>>
    /\ \E outcome \in HttpOutcomes :
        LET https_url == "https://" \o setup.fqdn \o "/productpage"
        IN /\ calls' = Append(calls, Step("http_get", https_url, FALSE))
           /\ IF RequestReturns(outcome)
              THEN /\ frame' = [frame EXCEPT
                                  !.test_table = Append(@, TestRow("HTTPS", https_url, outcome))]
                   /\ Returned("smoke_test")
              ELSE /\ frame' = NoFrame
                   /\ Raised("smoke_test")

\* a session whose run has come to the smoke test
SmokeInit ==
    /\ args \in [unique_id : {ExampleToken}, location : Locations,
                 issuer_type : IssuerTypes, cleanup : {FALSE}]
    /\ setup = [NewSetup(args.unique_id, args.location, args.issuer_type)
                 EXCEPT !.ingress_ip = "20.0.0.1",
                        !.node_resource_group = NodeResourceGroup(args.unique_id),
                        !.fqdn = Fqdn(args.unique_id, args.location)]
    /\ pc = "smoke_test"
    /\ exit_status = << >>
    /\ started = SubSeq(RunOrder, 1, StageIndex(pc) - 1)
    /\ finished = started
    /\ raised \in {<< >>, <<"policy_demo">>, <<"violation_check">>,
                   <<"policy_demo", "violation_check">>}
    /\ calls = << >>
    /\ cloud = [rg |-> TRUE, aks |-> TRUE, mesh |-> TRUE, cert_manager |-> TRUE]
    /\ answer = "none"
    /\ prev = NoPrev
    /\ loop = NoPoll
    /\ frame = NoFrame
    /\ racers = NoRacers

SmokeNext ==
    \/ test_setup_http
    \/ test_setup_https
    \/ demo_opa_external_authz
    \/ display_summary

SmokeSpec == SmokeInit /\ [][SmokeNext]_vars

(***************************************************************************)
(* check_prerequisites in two steps: the checks up to sys.exit(1), then    *)
(* the installation of the missing optional tools; and the stage behind it.*)
(***************************************************************************)
\* sys.version_info as <<major, minor>>
PythonVersions == {<<2, 7>>, <<3, 11>>, <<3, 12>>, <<3, 13>>, <<4, 0>>}

\* versions of the Azure CLI as <<major, minor>>
AzVersions == {<<1, 99>>, <<2, 72>>, <<2, 73>>, <<2, 74>>, <<3, 0>>}

\* `az --version`: a non-zero exit, a first line without a parsable version,
\* or a version
AzObs ==
    {[found |-> FALSE, parsed |-> FALSE, version |-> <<0, 0>>],
     [found |-> TRUE, parsed |-> FALSE, version |-> <<0, 0>>]}
    \cup [found : {TRUE}, parsed : {TRUE}, version : AzVersions]

\* python_ok
PythonOk(v) == (v[1] = 3 /\ v[2] >= 12) \/ v[1] > 3

\* an Azure CLI check that compares the minor version only
AzOkMinorOnly(az) == az.found /\ az.parsed /\ az.version[2] >= 73

\* az_ok; a missing CLI and an unparsable version are not ok
AzOk(az) ==
    /\ az.found
    /\ az.parsed
    /\ (az.version[1] > 2) \/ (az.version[1] = 2 /\ az.version[2] >= 73)

\* check_prerequisites up to "# Exit if critical prerequisites are missing"
prerequisite_checks ==
    /\ pc = "prerequisites"
    /\ frame = NoFrame
    /\ UNCHANGED <<loop, racers, args, setup, cloud, answer, prev, calls>>
    /\ \E python \in PythonVersions, az \in AzObs, kubectl \in BOOLEAN,
          logged_in \in BOOLEAN, istioctl \in BOOLEAN, helm \in BOOLEAN :
        LET all_satisfied == PythonOk(python) /\ AzOk(az) /\ kubectl /\ logged_in
        IN /\ frame' = [fn |-> "check_prerequisites", python |-> python, az |-> az,
                        kubectl |-> kubectl, logged_in |-> logged_in,
                        istioctl |-> istioctl, helm |-> helm]
           /\ IF all_satisfied
              THEN UNCHANGED <<pc, exit_status, started, finished, raised>>
              ELSE SysExit("prerequisites")

\* check_prerequisites, "# Install missing optional tools"
install_optional_tools ==
    /\ pc = "prerequisites"
    /\ frame # NoFrame
    /\ UNCHANGED <<loop, racers, args, setup, cloud, answer, prev, frame>>
    /\ StepsStage("prerequisites",
          (IF frame.istioctl THEN << >> ELSE << Call("install_istioctl", "") >>)
          \o (IF frame.helm THEN << >> ELSE << Call("install_helm", "") >>))

\* a session at the start of run()
PrereqInit ==
    /\ args \in [unique_id : {ExampleToken}, location : Locations,
                 issuer_type : IssuerTypes, cleanup : {FALSE}]
    /\ setup = NewSetup(args.unique_id, args.location, args.issuer_type)
    /\ pc = "prerequisites"
    /\ exit_status = << >>
    /\ started = << >>
    /\ finished = << >>
    /\ raised = << >>
    /\ calls = << Call("account_show", "") >>
    /\ cloud = NoCloud
    /\ answer = "none"
    /\ prev = NoPrev
    /\ loop = NoPoll
    /\ frame = NoFrame
    /\ racers = NoRacers

PrereqNext ==
    \/ prerequisite_checks
    \/ install_optional_tools
    \/ create_resource_group

PrereqSpec == PrereqInit /\ [][PrereqNext]_vars

(***************************************************************************)
(* Properties of the orchestrator and of main().                           *)
(***************************************************************************)
\* the pipeline as the specification lists it
ClaimedOrder ==
    << "prerequisites", "resource_group", "cluster", "mesh_install",
       "external_authz_deploy", "dns_binding", "cert_manager_install",
       "issuer_create", "certificate_create", "policy_demo",
       "gateway_configure", "workload_deploy", "authz_policy_configure",
       "violation_check", "smoke_test", "authz_demo", "summary" >>

ClaimedBestEffort == {"policy_demo", "violation_check", "authz_demo"}

OpsOf(cs) == {cs[i].op : i \in DOMAIN cs}

\* C1: the stages of a provisioning run start in the listed order, and a stage
\* has started only if every stage listed before it has finished (normally, or
\* with a swallowed failure for a best-effort stage).
C1_StagesInOrder ==
    /\ Len(started) <= Len(ClaimedOrder)
    /\ \A i \in 1..Len(started) :
        /\ started[i] = ClaimedOrder[i]
        /\ \A j \in 1..(i - 1) : ClaimedOrder[j] \in Range(finished)
    /\ \A s \in Range(finished) : s \in Range(started)

\* a complete run, one of whose best-effort stages failed on the way
C1_Witness ==
    /\ pc = "done"
    /\ started = ClaimedOrder
    /\ "violation_check" \in Range(raised)

\* C2: once a required stage (any stage but policy_demo, violation_check,
\* authz_demo) has failed, it is the last stage the run entered, the summary was
\* not executed, and the process has ended with a non-zero exit status.
C2_RequiredFailureHalts ==
    \A i \in 1..Len(raised) :
        (raised[i] \in Range(ClaimedOrder) \ ClaimedBestEffort) =>
            /\ started[Len(started)] = raised[i]
            /\ raised[i] \notin Range(finished)
            /\ "summary" \notin Range(finished)
            /\ pc = "done"
            /\ exit_status # << >> /\ exit_status[1] # 0

\* the workload deployment failed after the earlier stages had passed
C2_Witness ==
    /\ "workload_deploy" \in Range(raised)
    /\ "gateway_configure" \in Range(finished)
    /\ pc = "done"

\* the stage the specification names as following each best-effort stage
ClaimedFollower(s) ==
    CASE s = "policy_demo" -> "gateway_configure"
      [] s = "violation_check" -> "smoke_test"
      [] s = "authz_demo" -> "summary"

\* C3: after a failure of policy_demo, violation_check or authz_demo the run
\* goes on: the stage that follows it is the next to execute or has executed,
\* and the failure alone never sets a failing exit status.
C3_BestEffortFailureContinues ==
    \A s \in ClaimedBestEffort :
        s \in Range(raised) =>
            /\ s \in Range(finished)
            /\ pc = ClaimedFollower(s) \/ ClaimedFollower(s) \in Range(started)
            /\ (Range(raised) \subseteq ClaimedBestEffort /\ pc = "done") => exit_status = <<0>>

\* all three best-effort stages failed and the run still ended with status 0
C3_Witness ==
    /\ pc = "done"
    /\ Range(raised) = ClaimedBestEffort
    /\ "summary" \in Range(finished)
    /\ exit_status = <<0>>

\* C4: within one run every stage is entered at most once, whether it
\* succeeds or fails.
C4_NoStageRetried ==
    \A i \in 1..Len(started) : \A j \in 1..Len(started) :
        started[i] = started[j] => i = j

\* a run that failed at a required stage after a swallowed failure, and a
\* complete run, both enter each stage once; the former is the witness
C4_Witness ==
    /\ pc = "done"
    /\ "policy_demo" \in Range(raised)
    /\ "authz_policy_configure" \in Range(raised)

\* the validity rule of the specification: five characters, lowercase
\* alphanumeric, the first a letter
ClaimedInvalidToken(u) ==
    /\ u # None
    /\ \/ Len(u) # 5
       \/ \E i \in 1..Len(u) : u[i] \notin LowerChars \cup UpperChars \cup DigitChars
       \/ \E i \in 1..Len(u) : u[i] \in UpperChars
       \/ (Len(u) > 0 /\ u[1] \in DigitChars)

\* C5: every invalid token supplied on the command line (wrong length, the
\* empty string included, a non-alphanumeric character, an uppercase letter, a
\* leading digit) is rejected with exit status 1 before the session is
\* constructed and before any provisioning call; no token is generated for it.
C5_InvalidTokenRejected ==
    (ClaimedInvalidToken(args.unique_id) /\ pc # "main") =>
        /\ pc = "done"
        /\ exit_status = <<1>>
        /\ ~setup.constructed
        /\ started = << >>
        /\ OpsOf(calls) \subseteq {"account_show"}

\* C6: an issuer class outside {staging, production} ends the process with
\* exit status 1 before the session is constructed and before any external
\* call, with and without the cleanup flag.
C6_IssuerValidated ==
    (args.issuer_type \notin {"staging", "production"} /\ pc # "main") =>
        /\ pc = "done"
        /\ exit_status = <<1>>
        /\ ~setup.constructed
        /\ calls = << >>
        /\ started = << >>

\* a cleanup start with a valid token and the issuer class "Staging"
C6_Witness ==
    /\ args.issuer_type = "Staging"
    /\ args.cleanup
    /\ args.unique_id = ExampleToken
    /\ pc = "done"

\* C7: a process started with the cleanup flag executes no pipeline stage and
\* issues no call but the subscription lookup and the deletion; a process
\* started without it issues no deletion call.
C7_CleanupXorProvisioning ==
    /\ args.cleanup =>
        /\ started = << >>
        /\ finished = << >>
        /\ OpsOf(calls) \subseteq {"account_show", "rg_delete", "rg_delete_wait"}
    /\ ~args.cleanup =>
        /\ OpsOf(calls) \cap {"rg_delete", "rg_delete_wait"} = {}
        /\ answer = "none"

\* a confirmed cleanup in a later start of the same session
C7_Witness ==
    /\ args.cleanup
    /\ prev.constructed
    /\ pc = "done"
    /\ "rg_delete" \in OpsOf(calls)
    /\ cloud = NoCloud

DeleteCalls == SelectSeq(calls, LAMBDA c : c.op = "rg_delete")

ClaimedProvisioned ==
    /\ ~args.cleanup
    /\ setup.constructed
    /\ \A s \in Range(ClaimedOrder) \ ClaimedBestEffort : s \in Range(finished)

\* cleanup completed or was declined
ClaimedCleanedUp ==
    /\ args.cleanup
    /\ setup.constructed
    /\ \/ answer = "no"
       \/ answer = "yes" /\ raised = << >> /\ "rg_delete_wait" \in OpsOf(calls)

\* C9: a process that has ended has exit status 0 or 1; it is 0 exactly when
\* the run succeeded (every required stage and the summary completed, or cleanup
\* completed or was declined); a rejected argument and a fatal stage error
\* give 1.
C9_ExitStatus ==
    /\ pc # "done" => exit_status = << >>
    /\ pc = "done" =>
        /\ exit_status \in {<<0>>, <<1>>}
        /\ exit_status = <<0>> <=> (ClaimedProvisioned \/ ClaimedCleanedUp)
        /\ (UniqueIdRejected(args.unique_id) \/ args.issuer_type \notin {"staging", "production"})
             => exit_status = <<1>>
        /\ Range(raised) \ ClaimedBestEffort # {} => exit_status = <<1>>

\* a provisioning run that got as far as the DNS binding and failed there
C9_Witness ==
    /\ pc = "done"
    /\ ~args.cleanup
    /\ "dns_binding" \in Range(raised)
    /\ exit_status = <<1>>

\* C10: the resource group name is "aks-sample-" + token and the cluster name
\* is "aks-sample-" + token + "-aks", for the supplied token when one is
\* supplied; a second construction with the same token derives the same names;
\* token a1b2c gives aks-sample-a1b2c and aks-sample-a1b2c-aks.
C10_DerivedNames ==
    setup.constructed =>
        /\ Truthy(args.unique_id) => setup.unique_id = args.unique_id
        /\ setup.resource_group = "aks-sample-" \o Str(setup.unique_id)
        /\ setup.aks_name = "aks-sample-" \o Str(setup.unique_id) \o "-aks"
        /\ (prev.constructed /\ prev.unique_id = setup.unique_id) =>
             /\ setup.resource_group = prev.resource_group
             /\ setup.aks_name = prev.aks_name
        /\ setup.unique_id = ExampleToken =>
             /\ setup.resource_group = "aks-sample-a1b2c"
             /\ setup.aks_name = "aks-sample-a1b2c-aks"

\* the example session, constructed for the second time
C10_Witness ==
    /\ setup.constructed
    /\ prev.constructed
    /\ setup.unique_id = ExampleToken
    /\ prev.unique_id = ExampleToken

(***************************************************************************)
(* Properties of the session, its documents and its re-runs.               *)
(***************************************************************************)
\* C11: when no token is supplied, the token of the constructed session has
\* exactly 5 characters, the first a lowercase letter, the other four lowercase
\* letters or digits, and passes the checks main() makes of a supplied token.
C11_GeneratedTokenValid ==
    (setup.constructed /\ ~Truthy(args.unique_id)) =>
        /\ Len(setup.unique_id) = 5
        /\ setup.unique_id[1] \in LowerChars
        /\ \A i \in 2..5 : setup.unique_id[i] \in LowerChars \cup DigitChars
        /\ ~UniqueIdRejected(setup.unique_id)

\* a session started without --unique-id whose generated token holds a digit
C11_Witness ==
    /\ args.unique_id = None
    /\ setup.constructed
    /\ \E i \in 2..5 : setup.unique_id[i] \in DigitChars

\* C12: while a session exists, no step changes its token, its resource group
\* name, its cluster name, its region or its issuer class: every step of a
\* stage and of cleanup leaves the five fields as construction set them.
C12_IdentityImmutable ==
    [][(setup.constructed /\ setup'.constructed) =>
          /\ setup'.unique_id = setup.unique_id
          /\ setup'.resource_group = setup.resource_group
          /\ setup'.aks_name = setup.aks_name
          /\ setup'.location = setup.location
          /\ setup'.issuer_type = setup.issuer_type]_vars

\* a session whose DNS binding has filled in the runtime fields
C12_Witness ==
    /\ setup.constructed
    /\ setup.ingress_ip # NoneStr
    /\ setup.node_resource_group # NoneStr
    /\ setup.fqdn # NoneStr
    /\ setup.unique_id = ExampleToken
    /\ "dns_binding" \in Range(finished)

\* the documents of the given resource_type handed to the applier in this run
Applied(resource_type) ==
    SelectSeq(calls, LAMBDA c : IF c.op = "kubectl_apply"
                                THEN c.arg.resource_type = resource_type ELSE FALSE)

\* C13: an applied issuer document names the staging endpoint
\* https://acme-staging-v02.api.letsencrypt.org/directory when the issuer class
\* is staging and https://acme-v02.api.letsencrypt.org/directory when it is
\* production, and is named letsencrypt-<class>; an applied certificate
\* document refers to a ClusterIssuer of exactly the name the issuer document
\* applied before it defines.
C13_IssuerDocument ==
    /\ \A i \in DOMAIN Applied("ClusterIssuer") :
        LET issuer == Applied("ClusterIssuer")[i].arg
        IN /\ setup.issuer_type = "staging" =>
                issuer.server = "https://acme-staging-v02.api.letsencrypt.org/directory"
           /\ setup.issuer_type = "production" =>
                issuer.server = "https://acme-v02.api.letsencrypt.org/directory"
           /\ issuer.name = "letsencrypt-" \o setup.issuer_type
    /\ \A j \in DOMAIN Applied("Certificate") :
        LET certificate == Applied("Certificate")[j].arg
        IN /\ certificate.issuerRef.kind = "ClusterIssuer"
           /\ certificate.issuerRef.name = "letsencrypt-" \o setup.issuer_type
           /\ \E i \in DOMAIN Applied("ClusterIssuer") :
                Applied("ClusterIssuer")[i].arg.name = certificate.issuerRef.name

\* a production session that has applied its issuer and its certificate
C13_Witness ==
    /\ setup.issuer_type = "production"
    /\ Len(Applied("ClusterIssuer")) = 1
    /\ Len(Applied("Certificate")) = 1
    /\ "certificate_create" \in Range(finished)

CallsOf(op) == SelectSeq(calls, LAMBDA c : c.op = op)

\* the existence checks of this run that answered `ans`
Answered(op, ans) ==
    SelectSeq(calls, LAMBDA c : IF c.op = op THEN c.answer = ans ELSE FALSE)

\* C14: a resource-group or cluster step whose lookup finds the resource
\* issues no creation call; a run issues each creation call at most once; the
\* first run to complete both steps issues each of the two creation calls
\* exactly once and, like every run that completes them, leaves both resources
\* in place; a run with the same token that begins with both in place and
\* completes both steps, its lookups answering, issues neither creation call:
\* over the two runs each creation call is issued exactly once.
C14_EnsureCreatesOnce ==
    /\ Answered("rg_lookup", "found") # << >> => CallsOf("rg_create") = << >>
    /\ Answered("aks_lookup", "found") # << >> => CallsOf("aks_create") = << >>
    /\ Len(CallsOf("rg_create")) <= 1
    /\ Len(CallsOf("aks_create")) <= 1
    /\ {"resource_group", "cluster"} \subseteq Range(finished) =>
        /\ cloud.rg /\ cloud.aks
        /\ ~prev.constructed =>
            /\ Len(CallsOf("rg_create")) = 1
            /\ Len(CallsOf("aks_create")) = 1
        /\ (/\ prev.constructed
            /\ prev.unique_id = setup.unique_id
            /\ prev.cloud.rg /\ prev.cloud.aks
            /\ Answered("rg_lookup", "error") = << >>
            /\ Answered("aks_lookup", "error") = << >>) =>
            /\ CallsOf("rg_create") = << >>
            /\ CallsOf("aks_create") = << >>

\* the second of two runs that completed both steps: both resources found,
\* nothing created
C14_Witness ==
    /\ prev.constructed
    /\ prev.cloud.rg /\ prev.cloud.aks
    /\ {"resource_group", "cluster"} \subseteq Range(finished)
    /\ Len(Answered("rg_lookup", "found")) = 1
    /\ Len(Answered("aks_lookup", "found")) = 1
    /\ CallsOf("rg_create") = << >>
    /\ CallsOf("aks_create") = << >>

\* the stage that failed last and the call it failed at
FailedAt(stage, op) ==
    /\ raised # << >> /\ raised[Len(raised)] = stage
    /\ calls # << >> /\ calls[Len(calls)].op = op

\* the existence checks of this run all answered
LookupsAnswered ==
    \A op \in {"rg_lookup", "aks_lookup", "kubectl_get_namespace"} : Answered(op, "error") = << >>

\* C15: in a re-run with the token of an earlier run, the lookups answering,
\* no stage fails at the creation call of a resource that was in place when
\* the re-run began: not the resource group, not the cluster, not the mesh,
\* not the cert-manager release.
C15_RerunSafe ==
    (/\ prev.constructed
     /\ prev.unique_id = setup.unique_id
     /\ ~args.cleanup
     /\ LookupsAnswered) =>
        /\ ~(FailedAt("resource_group", "rg_create") /\ prev.cloud.rg)
        /\ ~(FailedAt("cluster", "aks_create") /\ prev.cloud.aks)
        /\ ~(FailedAt("mesh_install", "istioctl_install") /\ prev.cloud.mesh)
        /\ ~(FailedAt("cert_manager_install", "helm_install") /\ prev.cloud.cert_manager)

\* C16: whenever the cluster stage has completed, with a created or with an
\* adopted cluster, the run has fetched the cluster credentials and has waited
\* for node readiness.
C16_ClusterLifecycle ==
    "cluster" \in Range(finished) =>
        /\ CallsOf("aks_get_credentials") # << >>
        /\ CallsOf("wait_cluster_readiness") # << >>

\* C17: in a run whose check of the istio-system namespace found it, no stage
\* invokes istioctl install.
C17_MeshNeverReapplied ==
    Answered("kubectl_get_namespace", "found") # << >> => CallsOf("istioctl_install") = << >>

(***************************************************************************)
(* Properties of the polling loops.                                        *)
(***************************************************************************)
\* C18: in each of the three polls (node readiness, deployment readiness,
\* ingress address) the poll has returned exactly when its last evaluation of
\* the predicate was true, and no evaluation follows a true one: every
\* evaluation before the last was false.
C18_ReturnsOnFirstTrue ==
    loop.kind \in {"node", "deployment", "ingress"} =>
        /\ \A n \in 1..(Len(loop.results) - 1) : ~loop.results[n]
        /\ loop.status = "returned" <=>
              (loop.results # << >> /\ loop.results[Len(loop.results)])

\* a deployment wait that returned at its third evaluation
C18_Witness ==
    /\ loop.kind = "deployment"
    /\ loop.status = "returned"
    /\ loop.results = <<FALSE, FALSE, TRUE>>

\* C19: the node readiness poll and the ingress address poll never evaluate
\* their predicate more than 30 times, and one that has failed with its
\* timeout error has evaluated it exactly 30 times, every time to false; the
\* ingress poll that timed out has stored no address.
C19_TimeoutAfterMaxAttempts ==
    loop.kind \in {"node", "ingress"} =>
        /\ Len(loop.results) <= 30
        /\ loop.status = "timeout" =>
            /\ Len(loop.results) = 30
            /\ \A n \in 1..30 : ~loop.results[n]
            /\ setup.ingress_ip = NoneStr

\* an ingress address poll that ran out of attempts
C19_Witness ==
    /\ loop.kind = "ingress"
    /\ loop.status = "timeout"
    /\ Len(loop.results) = 30

\* the evaluations a poll makes before it times out, as the specification
\* counts them: 30 attempts, or the 300 time-unit ceiling at 5 per attempt
ClaimedAttempts(kind) ==
    CASE kind = "node" -> 30
      [] kind = "deployment" -> 60
      [] kind = "ingress" -> 30

\* C20 as stated: each of the three polls that has timed out has made a fixed
\* number of evaluations, whatever time its calls took.
C20_AttemptCountBounded ==
    loop.status = "timeout" => Len(loop.results) = ClaimedAttempts(loop.kind)

\* C20, amended: a node readiness or ingress address poll that has timed out
\* has made 30 evaluations whatever time its calls took; a deployment poll
\* makes a call only while fewer than 300 seconds have passed since it began,
\* and has timed out only when 300 seconds or more have passed.
C20_TimeoutBounds ==
    /\ (loop.kind \in {"node", "ingress"} /\ loop.status = "timeout") =>
            Len(loop.results) = 30
    /\ loop.kind = "deployment" =>
        /\ loop.results # << >> => loop.at < 300
        /\ loop.status = "timeout" => loop.elapsed >= 300

\* a deployment poll of slow calls that timed out after five evaluations
C20_Witness ==
    /\ loop.kind = "deployment"
    /\ loop.status = "timeout"
    /\ Len(loop.results) = 5
    /\ loop.elapsed >= 300
\* the replica counts the specification gives an observation: ready defaults
\* to 0, desired to 1
ClaimedReadyCount(o) == IF o.readyReplicas = << >> THEN 0 ELSE o.readyReplicas[1]

ClaimedDesiredCount(o) == IF o.replicas = << >> THEN 1 ELSE o.replicas[1]

\* a failed or unparsable observation is not ready
ClaimedDeploymentReady(o) ==
    /\ o.rc = 0
    /\ o.parsed
    /\ ClaimedReadyCount(o) >= ClaimedDesiredCount(o)

Replicas(o, ready, desired) ==
    o.rc = 0 /\ o.parsed /\ o.readyReplicas = <<ready>> /\ o.replicas = <<desired>>

\* C21: every evaluation of the deployment wait is "ready count >= desired
\* count" with a missing desired count taken as 1 and a missing ready count as
\* 0, and false for a failed or unparsable observation; the wait has returned
\* exactly when the last observation was ready: on 3 of 3 it has returned, on
\* 2 of 3 it has not and the loop condition is evaluated again.
C21_DeploymentPredicate ==
    (loop.kind = "deployment" /\ loop.results # << >>) =>
        /\ loop.results[Len(loop.results)] = ClaimedDeploymentReady(loop.last)
        /\ loop.status = "returned" <=> ClaimedDeploymentReady(loop.last)
        /\ Replicas(loop.last, 3, 3) => loop.status = "returned"
        /\ Replicas(loop.last, 2, 3) => loop.status \in {"polling", "timeout"}
        /\ (loop.last.rc # 0 \/ ~loop.last.parsed) => loop.status # "returned"
        /\ \A k \in 1..(Len(loop.results) - 1) : ~loop.results[k]

\* the wait returned on 3 of 3 after an observation that was not ready
C21_Witness ==
    /\ loop.kind = "deployment"
    /\ loop.status = "returned"
    /\ Replicas(loop.last, 3, 3)
    /\ Len(loop.results) = 2

\* the wait polls again after 2 of 3
C21_WitnessNotReady ==
    /\ loop.kind = "deployment"
    /\ loop.status = "polling"
    /\ loop.results # << >>
    /\ Replicas(loop.last, 2, 3)
\* the node list is not empty and its first node has a condition of type Ready
\* with status True
ClaimedNodeReady(items) ==
    /\ items # << >>
    /\ [type |-> "Ready", status |-> "True"] \in Range(Head(items))

\* C22: every evaluation of the node readiness wait is "the node list is not
\* empty and its first node reports Ready = True"; the nodes after the first
\* never change the outcome, an empty list is not ready, and the wait has
\* returned exactly when the last evaluation was satisfied.
C22_FirstNodeDecides ==
    (loop.kind = "node" /\ loop.results # << >>) =>
        /\ loop.results[Len(loop.results)] = ClaimedNodeReady(loop.last.items)
        /\ loop.status = "returned" <=> ClaimedNodeReady(loop.last.items)
        /\ loop.last.items = << >> => loop.status # "returned"

\* the wait goes on although the second node of the list is ready, the first
\* one not
C22_Witness ==
    /\ loop.kind = "node"
    /\ loop.status = "polling"
    /\ loop.results # << >>
    /\ Len(loop.last.items) = 2
    /\ ~ClaimedNodeReady(loop.last.items)
    /\ ClaimedNodeReady(Tail(loop.last.items))

\* the wait returned on a ready first node although the second one is not ready
C22_WitnessReturned ==
    /\ loop.kind = "node"
    /\ loop.status = "returned"
    /\ Len(loop.last.items) = 2
    /\ ~ClaimedNodeReady(Tail(loop.last.items))
\* the DNS stage of this run has ended without an ingress address
NoIngressAddress ==
    /\ "dns_binding" \in Range(started)
    /\ setup.ingress_ip = NoneStr

\* the DNS stage has listed the public addresses of the node resource group
\* and none of them has the ingress address
NoPublicAddress ==
    /\ frame.fn = "configure_dns"
    /\ frame.listed
    /\ \A i \in DOMAIN frame.public_ips : frame.public_ips[i].ip_address # setup.ingress_ip

\* C23: when no ingress address was discovered, or no public-address resource
\* of the node resource group has the ingress address, the DNS binding fails:
\* no update call is issued, the FQDN stays unset and the run is aborted with a
\* failing exit status.
C23_DnsBindingFails ==
    (NoIngressAddress \/ NoPublicAddress) =>
        /\ raised # << >> /\ raised[Len(raised)] = "dns_binding"
        /\ "dns_binding" \notin Range(finished)
        /\ CallsOf("public_ip_update") = << >>
        /\ setup.fqdn = NoneStr
        /\ pc = "done"
        /\ exit_status = <<1>>

\* the node resource group has public addresses, none with the ingress address
C23_Witness ==
    /\ NoPublicAddress
    /\ Len(frame.public_ips) = 2
    /\ setup.ingress_ip \in IngressIps
    /\ pc = "done"

\* the ingress address was never discovered
C23_WitnessNoIngress ==
    /\ NoIngressAddress
    /\ pc = "done"

\* r is the first resource of the list with the address ip
IsFirstWithAddress(public_ips, r, ip) ==
    \E i \in DOMAIN public_ips :
        /\ public_ips[i] = r
        /\ r.ip_address = ip
        /\ \A j \in 1..(i - 1) : public_ips[j].ip_address # ip

\* b comes right after a in the calls of this run
Follows(a, b) ==
    \E i \in 1..(Len(calls) - 1) : calls[i].op = a /\ calls[i + 1].op = b

\* C24: a DNS binding that succeeds has issued exactly one update call; an
\* update call is issued on the first listed public-address resource whose IP
\* equals the ingress address and sets its DNS label to the session token; the
\* FQDN is set only when the update operation was waited for and completed.
C24_DnsBindingUpdates ==
    /\ Len(CallsOf("public_ip_update")) <= 1
    /\ "dns_binding" \in Range(finished) =>
        /\ Len(CallsOf("public_ip_update")) = 1
        /\ setup.fqdn # NoneStr
    /\ (frame.fn = "configure_dns" /\ CallsOf("public_ip_update") # << >>) =>
        LET update == CallsOf("public_ip_update")[1]
        IN /\ \E r \in Range(frame.public_ips) :
                /\ IsFirstWithAddress(frame.public_ips, r, setup.ingress_ip)
                /\ update.arg[1] = r.name
           /\ update.arg[2] = Str(setup.unique_id)
    /\ setup.fqdn # NoneStr =>
        /\ "dns_binding" \in Range(finished)
        /\ Follows("public_ip_update", "public_ip_update_wait")

\* two public addresses have the ingress address and the binding succeeded on
\* the first one
C24_Witness ==
    /\ frame.fn = "configure_dns"
    /\ Len(frame.public_ips) = 2
    /\ \A i \in DOMAIN frame.public_ips : frame.public_ips[i].ip_address = setup.ingress_ip
    /\ "dns_binding" \in Range(finished)
    /\ setup.fqdn # NoneStr
    /\ CallsOf("public_ip_update") # << >>

\* the update was issued and its operation failed: no FQDN
C24_WitnessUpdateFailed ==
    /\ frame.fn = "configure_dns"
    /\ CallsOf("public_ip_update_wait") # << >>
    /\ setup.fqdn = NoneStr
IsApply(c, resource_type) ==
    IF c.op = "kubectl_apply" THEN c.arg.resource_type = resource_type ELSE FALSE

\* the calls of this run end with the issuer's apply and one certificate apply
EndsWithCertificateApply ==
    /\ Len(calls) >= 2
    /\ IsApply(calls[Len(calls)], "Certificate")
    /\ IsApply(calls[Len(calls) - 1], "ClusterIssuer")

\* C25: the certificate stage only submits the certificate request: it makes
\* exactly one manifest apply and no other call (no poll, no readiness wait),
\* whether the apply succeeds or fails, and when the apply returns the pipeline
\* is at the next stage without any observation of the certificate.
C25_CertificateOnlySubmitted ==
    /\ Len(Applied("Certificate")) <= 1
    /\ "certificate_create" \in Range(started) => Len(Applied("Certificate")) = 1
    /\ (raised # << >> /\ raised[Len(raised)] = "certificate_create") =>
        EndsWithCertificateApply
    /\ pc = "policy_demo" =>
        /\ "certificate_create" \in Range(finished)
        /\ EndsWithCertificateApply
    /\ "wait_certificate" \notin OpsOf(calls)

\* the certificate was submitted and the run is at the policy demo
C25_Witness ==
    /\ pc = "policy_demo"
    /\ Len(Applied("Certificate")) = 1
    /\ "certificate_create" \in Range(finished)
\* the pieces of `text`, in order and adjacent, are among `pieces`
Carries(pieces, text) ==
    \E i \in 1..(Len(pieces) + 1) :
        /\ i + Len(text) - 1 <= Len(pieces)
        /\ SubSeq(pieces, i, i + Len(text) - 1) = text

\* C26: a call of the manifest applier starts the client once and writes the
\* document once on its input stream; it has returned normally exactly when
\* the client exited 0; when the client exited non-zero it has raised an error
\* whose message carries the content of the client's diagnostic stream; there
\* is no second submission.
C26_ApplyOnce ==
    (frame.fn = "_kubectl_apply" /\ frame.status # "called") =>
        /\ frame.spawned = 1
        /\ frame.stdin = <<frame.yaml_content>>
        /\ frame.status = "returned" <=> frame.process[1].rc = 0
        /\ frame.process[1].rc = 0 => frame.error = << >>
        /\ frame.process[1].rc # 0 =>
            /\ frame.status = "raised"
            /\ frame.error # << >>
            /\ Carries(frame.error[1].str, frame.process[1].stderr)

\* the client rejected the certificate document with a diagnostic text
C26_Witness ==
    /\ frame.fn = "_kubectl_apply"
    /\ frame.status = "raised"
    /\ frame.process[1].rc = 2
    /\ frame.process[1].stderr # << >>
    /\ frame.yaml_content.kind = "Certificate"

\* C27: a call of the command executor runs the external process exactly once;
\* it has raised exactly when the check option was set and the process exited
\* non-zero; otherwise it has returned the exit status, stdout and stderr of the
\* process, a non-zero exit status included when the option was not set.
C27_RunOnce ==
    (frame.fn = "_run_command" /\ frame.status # "called") =>
        /\ frame.spawned = 1
        /\ frame.status \in {"returned", "raised"}
        /\ frame.status = "raised" <=> (frame.check /\ frame.process[1].rc # 0)
        /\ frame.status = "returned" =>
            /\ Len(frame.result) = 1
            /\ frame.result[1].returncode = frame.process[1].rc
            /\ frame.result[1].stdout = frame.process[1].stdout
            /\ frame.result[1].stderr = frame.process[1].stderr

\* a query run without the check option returned a non-zero exit status
C27_Witness ==
    /\ frame.fn = "_run_command"
    /\ ~frame.check
    /\ frame.status = "returned"
    /\ frame.result[1].returncode = 1
    /\ frame.result[1].stderr # << >>

\* the words that name the resource type and the resource in a creation call
ResourceTypeOf(caller) == IF caller = "create_resource_group" THEN <<"group">> ELSE <<"aks">>

ResourceNameOf(caller) ==
    IF caller = "create_resource_group" THEN <<setup.resource_group>> ELSE <<setup.aks_name>>

\* C28: when the creation call of the resource group or of the cluster has
\* failed, what the failure reports on its way out (the command panel, the
\* error panel of the stage and the error the handler of run() renders)
\* carries the resource type, the resource name and the diagnostic text of the
\* failed call.
C28_CreationFailureCarriesDiagnostics ==
    (/\ frame.fn = "_run_command"
     /\ frame.caller \in Creators
     /\ frame.exited) =>
        /\ Carries(frame.console, ResourceTypeOf(frame.caller))
        /\ Carries(frame.console, ResourceNameOf(frame.caller))
        /\ Carries(frame.console, strip(frame.process[1].stderr))
\* C29: a provisioning run attempts no rollback: it issues no deletion call,
\* no resource that existed when the process started is gone, and when the run
\* has aborted at a stage, every resource the earlier stages of the run
\* created or adopted (resource group, cluster, mesh, cert-manager release) is
\* still in place.
C29_NoRollback ==
    ~args.cleanup =>
        /\ \A i \in DOMAIN calls : calls[i].op \notin {"rg_delete", "rg_delete_wait"}
        /\ \A r \in DOMAIN cloud : prev.cloud[r] => cloud[r]
        /\ (pc = "done" /\ exit_status = <<1>> /\ raised # << >>) =>
            /\ "resource_group" \in Range(finished) => cloud.rg
            /\ "cluster" \in Range(finished) => cloud.aks
            /\ "mesh_install" \in Range(finished) => cloud.mesh
            /\ "cert_manager_install" \in Range(finished) => cloud.cert_manager

\* the first run created the resource group and the cluster, installed the
\* mesh and aborted at the DNS binding
C29_Witness ==
    /\ ~args.cleanup
    /\ ~prev.constructed
    /\ pc = "done"
    /\ exit_status = <<1>>
    /\ raised = <<"dns_binding">>
    /\ CallsOf("rg_create") # << >>
    /\ CallsOf("aks_create") # << >>
    /\ cloud.rg /\ cloud.aks /\ cloud.mesh
IssuedOps(p) == {racers[p].issued[i].op : i \in DOMAIN racers[p].issued}

\* the run is past its creation step of the resource group / of the cluster
PastRgCreate(p) == racers[p].at \in {"aks_lookup", "aks_create", "returned", "failed"}

PastAksCreate(p) == racers[p].at \in {"returned", "failed"} /\ racers[p].aks # "none"

\* C30: nothing protects two concurrent runs of one token from each other: a
\* run whose lookup did not find the resource group (or the cluster) issues
\* the creation call whatever the other run has done since the lookup, and a
\* run whose lookup found it issues none; so when both runs have observed the
\* resource as absent, both issue its creation call.
C30_NoProtectionAgainstRace ==
    \A p \in DOMAIN racers :
        /\ PastRgCreate(p) => (racers[p].rg # "found" <=> "rg_create" \in IssuedOps(p))
        /\ PastAksCreate(p) => (racers[p].aks # "found" <=> "aks_create" \in IssuedOps(p))

\* both runs observed the resource group as absent and both issued its
\* creation call
C30_Witness ==
    /\ DOMAIN racers = Runs
    /\ \A p \in Runs :
        /\ racers[p].rg = "absent"
        /\ "rg_create" \in IssuedOps(p)

\* the same for the cluster
C30_WitnessCluster ==
    /\ DOMAIN racers = Runs
    /\ \A p \in Runs :
        /\ racers[p].aks = "absent"
        /\ "aks_create" \in IssuedOps(p)
\* C31: every provisioning run terminates: each polling loop ends, returned
\* or with its timeout error, and the run reaches its end, either with the
\* summary executed or with a failing exit status.
C31_RunTerminates ==
    <>(/\ pc = "done"
       /\ loop.status \in {"none", "returned", "timeout"}
       /\ "summary" \in Range(finished) \/ (exit_status # << >> /\ exit_status # <<0>>))

\* a run whose deployment wait timed out has ended with a failing exit status
C31_Witness ==
    /\ pc = "done"
    /\ loop.kind = "deployment"
    /\ loop.status = "timeout"
    /\ exit_status = <<1>>

\* a run that came through the ingress-address loop has executed the summary
C31_WitnessSummary ==
    /\ pc = "done"
    /\ loop.kind = "ingress"
    /\ loop.status = "returned"
    /\ "summary" \in Range(finished)
\* the stages whose documents, requests or output interpolate the FQDN
FqdnStages == {"issuer_create", "certificate_create", "gateway_configure", "smoke_test", "summary"}

\* the FQDN a call of this run was given, for the calls that take one
FqdnsUsed ==
    {Applied("ClusterIssuer")[i].arg.email : i \in DOMAIN Applied("ClusterIssuer")}
    \cup {"admin@" \o Applied("Certificate")[i].arg.commonName : i \in DOMAIN Applied("Certificate")}
    \cup {"admin@" \o Applied("Gateway & HTTPRoute")[i].arg.hostname :
             i \in DOMAIN Applied("Gateway & HTTPRoute")}

\* C32: whenever issuer_create, certificate_create, gateway_configure,
\* smoke_test or summary executes or is about to, dns_binding has started
\* before it in the same run and completed successfully: the ingress address
\* and the FQDN are both assigned, the FQDN by an address update that was
\* issued and waited for, and every document given a domain name was given
\* that FQDN.
C32_FqdnAssignedBeforeUse ==
    (pc \in FqdnStages \/ Range(started) \cap FqdnStages # {}) =>
        /\ "dns_binding" \in Range(finished)
        /\ "dns_binding" \notin Range(raised)
        /\ \E i \in DOMAIN started :
            /\ started[i] = "dns_binding"
            /\ \A j \in 1..i : started[j] \notin FqdnStages
        /\ setup.ingress_ip \in IngressIps
        /\ setup.fqdn = Str(setup.unique_id) \o "." \o setup.location \o ".cloudapp.azure.com"
        /\ Follows("public_ip_update", "public_ip_update_wait")
        /\ FqdnsUsed \subseteq {"admin@" \o setup.fqdn} \ {"admin@" \o NoneStr}

\* the smoke test has run with the FQDN of the completed address update
C32_Witness ==
    /\ "smoke_test" \in Range(started)
    /\ "dns_binding" \in Range(finished)
    /\ setup.fqdn # NoneStr
    /\ Len(Applied("Gateway & HTTPRoute")) = 1
\* C33: the smoke test never aborts the run: whatever its two requests end
\* with (200, another status, an error or timeout) it records one row per
\* request and returns normally; the run goes on to authz_demo, and a run that
\* entered the smoke test ends with the summary executed and exit status 0.
C33_SmokeTestNeverAborts ==
    /\ "smoke_test" \notin Range(raised)
    /\ "smoke_test" \in Range(started) =>
        /\ "smoke_test" \in Range(finished)
        /\ pc = "authz_demo" \/ "authz_demo" \in Range(started)
        /\ pc = "done" => ("summary" \in Range(finished) /\ exit_status = <<0>>)
    /\ frame # NoFrame =>
        /\ pc \in {"smoke_test", "authz_demo"}
        /\ exit_status = << >>
        /\ Len(frame.test_table) = Len(CallsOf("http_get"))
        /\ pc = "authz_demo" <=> Len(frame.test_table) = 2
        /\ \A i \in DOMAIN frame.test_table : frame.test_table[i].status \in HttpOutcomes

\* the first request failed, the second got a 503, and the run stands at the
\* authorization demo
C33_Witness ==
    /\ frame # NoFrame
    /\ Len(frame.test_table) = 2
    /\ frame.test_table[1].status = "Error"
    /\ frame.test_table[2].status = "503"
    /\ pc = "authz_demo"
    /\ "smoke_test" \in Range(finished)

\* a run that came through the smoke test has ended with exit status 0
C33_WitnessExit ==
    /\ pc = "done"
    /\ exit_status = <<0>>
    /\ Len(CallsOf("http_get")) = 2
IsCall(c, op, arg) == IF c.op = op THEN c.arg = arg ELSE FALSE

IsMeshWait(c) == IsCall(c, "wait_deployment", "istiod") \/ IsCall(c, "wait_deployment", "istio-ingressgateway")

IsMeshInstall(c) == IsCall(c, "istioctl_install", "profile=demo")

\* C34: when the namespace check of mesh_install finds istio-system, the
\* stage returns success with no call after the check: no install command and
\* no wait for istiod or the ingress gateway, the next call of the run being
\* the first one of external_authz_deploy; a wait for one of the two happens only after the
\* install command was issued in the same run and succeeded: the wait for
\* istiod right after it, the wait for the gateway right after that one.
C34_MeshAdoptedWithoutWait ==
    /\ Answered("kubectl_get_namespace", "found") # << >> =>
        /\ "mesh_install" \in Range(finished)
        /\ "mesh_install" \notin Range(raised)
        /\ \A i \in DOMAIN calls :
            /\ ~IsMeshInstall(calls[i])
            /\ ~IsMeshWait(calls[i])
            /\ ~IsCall(calls[i], "kubectl_apply_url", "gateway-api")
            /\ calls[i].op = "kubectl_get_namespace" =>
                (i = Len(calls) \/ IsApply(calls[i + 1], "OPA Namespace"))
    /\ \A i \in DOMAIN calls :
        /\ IsCall(calls[i], "wait_deployment", "istiod") =>
            (i > 1 /\ IsMeshInstall(calls[i - 1]))
        /\ IsCall(calls[i], "wait_deployment", "istio-ingressgateway") =>
            (i > 2 /\ IsCall(calls[i - 1], "wait_deployment", "istiod")
                   /\ IsMeshInstall(calls[i - 2]))

\* a re-run found the namespace and went on to the next stage without a wait
C34_Witness ==
    /\ Answered("kubectl_get_namespace", "found") # << >>
    /\ pc = "external_authz_deploy"
    /\ calls[Len(calls)].op = "kubectl_get_namespace"

\* a first run installed the mesh and waited for both deployments
C34_WitnessInstalled ==
    /\ Answered("kubectl_get_namespace", "absent") # << >>
    /\ pc = "external_authz_deploy"
    /\ IsCall(calls[Len(calls)], "wait_deployment", "istio-ingressgateway")
\* the critical prerequisites as the specification lists them
ClaimedCriticalUnmet(env) ==
    \/ env.python[1] < 3 \/ (env.python[1] = 3 /\ env.python[2] < 12)
    \/ ~env.az.found
    \/ /\ env.az.parsed
       /\ env.az.version[1] < 2 \/ (env.az.version[1] = 2 /\ env.az.version[2] < 73)
    \/ ~env.kubectl
    \/ ~env.logged_in

ClaimedCriticalMet(env) ==
    /\ env.python[1] > 3 \/ (env.python[1] = 3 /\ env.python[2] >= 12)
    /\ env.az.found /\ env.az.parsed
    /\ env.az.version[1] > 2 \/ (env.az.version[1] = 2 /\ env.az.version[2] >= 73)
    /\ env.kubectl
    /\ env.logged_in

InstallOps == {"install_istioctl", "install_helm"}

C35_WitnessInstalled ==
    /\ frame # NoFrame
    /\ frame.az.version = <<3, 0>>
    /\ ~frame.istioctl /\ ~frame.helm
    /\ pc = "resource_group"
    /\ InstallOps \subseteq OpsOf(calls)
IsOpaMeshConfig(c) == IsCall(c, "istioctl_install", "extensionProviders")

\* C36: a run that failed in external_authz_deploy failed at one of the three
\* manifest applies or at the readiness wait of the authorization service,
\* never at the mesh configuration, and it ended with status 1 before
\* dns_binding; once the mesh configuration command was issued, whatever its
\* return code, the stage has completed and the run has gone on to dns_binding.
C36_MeshConfigFailureTolerated ==
    /\ (raised # << >> /\ raised[Len(raised)] = "external_authz_deploy") =>
        /\ pc = "done"
        /\ exit_status = <<1>>
        /\ "dns_binding" \notin Range(started)
        /\ calls # << >>
        /\ \/ calls[Len(calls)] \in
                {Call("kubectl_apply", Doc(d)) :
                    d \in {"OPA Namespace", "OPA External AuthZ Service",
                           "OPA Authorization Policy"}}
           \/ calls[Len(calls)] = Call("wait_deployment", "opa")
    /\ frame.fn = "deploy_opa_external_authz" =>
        /\ frame.returncode \in ReturnCodes
        /\ IsOpaMeshConfig(calls[Len(calls)])
        /\ "external_authz_deploy" \in Range(finished)
        /\ "external_authz_deploy" \notin Range(raised)
        /\ exit_status = << >>
        /\ pc = "dns_binding"
    /\ \A i \in DOMAIN calls :
        IsOpaMeshConfig(calls[i]) =>
            /\ "external_authz_deploy" \in Range(finished)
            /\ "external_authz_deploy" \notin Range(raised)

\* the mesh configuration command exited non-zero and the run is at dns_binding
C36_Witness ==
    /\ frame.fn = "deploy_opa_external_authz"
    /\ frame.returncode = 1
    /\ pc = "dns_binding"

\* the readiness wait of the authorization service timed out and ended the run
C36_WitnessWaitFatal ==
    /\ FailedAt("external_authz_deploy", "wait_deployment")
    /\ exit_status = <<1>>

\* C37: the calls of external_authz_deploy come in the order namespace apply,
\* service and deployment apply, policy document apply, readiness wait, mesh
\* configuration, each issued only after the one before it succeeded: the wait
\* for the opa deployment comes right after the policy document's apply, and
\* the mesh configuration right after that wait.
C37_AuthzDeployOrder ==
    \A i \in DOMAIN calls :
        /\ IsApply(calls[i], "OPA External AuthZ Service") =>
            (i > 1 /\ IsApply(calls[i - 1], "OPA Namespace"))
        /\ IsApply(calls[i], "OPA Authorization Policy") =>
            (i > 1 /\ IsApply(calls[i - 1], "OPA External AuthZ Service"))
        /\ IsCall(calls[i], "wait_deployment", "opa") =>
            (i > 1 /\ IsApply(calls[i - 1], "OPA Authorization Policy"))
        /\ IsOpaMeshConfig(calls[i]) =>
            (i > 1 /\ IsCall(calls[i - 1], "wait_deployment", "opa"))

\* the stage completed: its five calls are the last five of the run so far
C37_Witness ==
    /\ pc = "dns_binding"
    /\ Len(calls) >= 5
    /\ IsApply(calls[Len(calls) - 4], "OPA Namespace")
    /\ IsApply(calls[Len(calls) - 2], "OPA Authorization Policy")
    /\ IsCall(calls[Len(calls) - 1], "wait_deployment", "opa")
    /\ IsOpaMeshConfig(calls[Len(calls)])
\* the response lacks a member the predicate reads: no node, a first node
\* without conditions, a deployment without its ready or its desired count,
\* an empty address
Incomplete(kind, o) ==
    CASE kind = "node" ->
            o.parsed /\ (IF o.items = << >> THEN TRUE ELSE o.items[1] = << >>)
      [] kind = "deployment" ->
            o.parsed /\ (o.readyReplicas = << >> \/ o.replicas = << >>)
      [] kind = "ingress" -> strip(o.stdout) = << >>

\* a deployment response that satisfies the predicate once the defaults 0 and 1
\* stand in for the counts it lacks
ReadyByDefaults(kind, o) ==
    IF kind = "deployment" THEN Get(o.readyReplicas, 0) >= Get(o.replicas, 1) ELSE FALSE

\* a non-zero exit, an output that is not JSON, or an incomplete response
FailedObservation(kind, o) ==
    \/ o.rc # 0
    \/ IF kind = "ingress" THEN FALSE ELSE ~o.parsed
    \/ IF o.rc = 0 THEN Incomplete(kind, o) ELSE FALSE

\* the loop guard of the poll no longer holds
PollExhausted == IF loop.kind = "deployment" THEN ~WithinDeadline(loop) ELSE ~LoopGoesOn(loop.i)

\* the attempt that made the last observation was unsatisfied, the loop slept
\* after it and went on to poll again or, its attempts or deadline used up,
\* to time out
UnsatisfiedAttempt ==
    /\ ~loop.results[Len(loop.results)]
    /\ loop.elapsed - loop.at >= (IF loop.kind = "deployment" THEN DeploymentSleep ELSE RetrySleep)
    /\ \/ loop.status = "polling"
       \/ loop.status = "timeout" /\ PollExhausted

\* C38 as stated: every non-zero exit, unparsable response and incomplete
\* response is an unsatisfied attempt, and a poll ends by returning or by its
\* timeout only.
C38_FailedObservationUnsatisfied ==
    loop.kind \in PollKinds =>
        /\ loop.status \in {"polling", "returned", "timeout"}
        /\ (loop.results # << >> /\ FailedObservation(loop.kind, loop.last))
            => UnsatisfiedAttempt

\* C38, amended: every non-zero exit, unparsable response and incomplete
\* response is an unsatisfied attempt after which the loop sleeps and polls
\* again, except a parsed deployment response that lacks a count and is ready
\* with the defaults ready = 0 and desired = 1; a poll ends by returning or
\* by its timeout only, and the timeout comes only when the attempts or the
\* deadline are used up.
C38_FailedObservationNeverAnError ==
    loop.kind \in PollKinds =>
        /\ loop.status \in {"polling", "returned", "timeout"}
        /\ loop.status = "timeout" => PollExhausted
        /\ (/\ loop.results # << >>
            /\ FailedObservation(loop.kind, loop.last)
            /\ ~(loop.last.rc = 0 /\ ReadyByDefaults(loop.kind, loop.last)))
            => UnsatisfiedAttempt

\* the deployment query exited non-zero after an earlier attempt and the loop
\* is polling on
C38_Witness ==
    /\ loop.kind = "deployment"
    /\ Len(loop.results) >= 2
    /\ loop.last.rc = 1
    /\ loop.status = "polling"
    /\ UnsatisfiedAttempt

\* a deployment response without spec.replicas and with one ready replica
\* ended the wait
C38_WitnessDefaults ==
    /\ loop.kind = "deployment"
    /\ loop.results # << >>
    /\ loop.last.rc = 0 /\ loop.last.parsed
    /\ loop.last.replicas = << >> /\ loop.last.readyReplicas = <<1>>
    /\ loop.status = "returned"

\* the node query answered without items and the loop is polling on
C38_WitnessNoItems ==
    /\ loop.kind = "node"
    /\ loop.results # << >>
    /\ loop.last.rc = 0 /\ loop.last.parsed /\ loop.last.items = << >>
    /\ loop.status = "polling"
====
